---- MODULE Spec2Model ----
(***************************************************************************)
(* A model of the query-orchestration pipeline of the RAG service:         *)
(* RAGService.query with its Redis response cache, the tenant-namespaced   *)
(* Pinecone vector store, and the batch endpoint that drives the           *)
(* orchestrator.                                                           *)
(*                                                                         *)
(* Python values whose type varies at run time (Optional fields, the       *)
(* "any"-typed message and response) are tagged records [t, v].            *)
(* Every awaited call of a coroutine is one action, taken at the point     *)
(* where the remote service acts; a remote call that raises is a second    *)
(* action that leaves the coroutine in the state "failed".                 *)
(***************************************************************************)
EXTENDS Integers, Sequences, FiniteSets, TLC

\* ------------------------------------------------------------------ bounds

\* Number of query invocations (uuid4 draws) in one behaviour.
MaxCalls == 2
\* Longest request list handed to batch_query, besides the over-long one.
MaxBatch == 2
\* Documents offered to one upsert_documents call.
MaxDocs == 2
\* The longest list of texts handed to embed_texts.
MaxTexts == 3
\* The most pages of a PDF document.
MaxPages == 2
\* The most records of a JSON array document.
MaxRecords == 2
\* The most SCAN calls Redis takes to walk its table.
MaxBuckets == 2

\* ------------------------------------------------------- program constants

\* top_k: int = 5
DefaultTopK == 5
\* if len(requests) > 10
MaxBatchRequests == 10
\* batch_size = 100
UpsertBatchSize == 100
\* doc["content"][:1000]
StoredContentChars == 1000

\* ------------------------------------------------------------ Python values

PyNone == [t |-> "none", v |-> "None"]
PyStr(s) == [t |-> "str", v |-> s]
PyInt(n) == [t |-> "int", v |-> ToString(n)]
\* A dict with one key (v is <<>> for the empty dict).
PyDict(k, val) == [t |-> "dict", v |-> <<k, val>>]

\* ------------------------------------------------------- tenants, assistants

Tenants ==
    { [id |-> "T1", slug |-> "acme"],
      [id |-> "T2", slug |-> "beta"] }

\* An Assistant row: the fields RAGService.query reads.
Assistants ==
    { [id |-> "A1", name |-> "Evaluador", slug |-> "eval", tenant_id |-> "T1",
       is_active |-> TRUE],
      [id |-> "A2", name |-> "Coach", slug |-> "coach", tenant_id |-> "T1",
       is_active |-> TRUE],
      [id |-> "A3", name |-> "Retirado", slug |-> "old", tenant_id |-> "T1",
       is_active |-> FALSE] }

NoAssistant ==
    [id |-> "-", name |-> "-", slug |-> "-", tenant_id |-> "-", is_active |-> FALSE]

\* assistant: Optional[Assistant]
OptAssistants == Assistants \cup {NoAssistant}

\* The messages of the model: two plain strings and one integer whose str()
\* is the second string.
Messages == { PyStr("Hello"), PyStr("7"), PyInt(7) }

\* ------------------------------------------------------------ Python strings

Min(a, b) == IF a < b THEN a ELSE b
Max(a, b) == IF a > b THEN a ELSE b

\* s[a:b] with Python's clamping and negative indices (0-based, b exclusive).
PySlice(s, a, b) ==
    LET n == Len(s)
        lo == IF a < 0 THEN Max(a + n, 0) ELSE Min(a, n)
        hi == IF b < 0 THEN Max(b + n, 0) ELSE Min(b, n)
    IN IF lo >= hi THEN "" ELSE SubSeq(s, lo + 1, hi)

\* s.find(pat, start): the lowest 0-based index >= start, or -1.
PyFind(s, pat, start) ==
    LET n == Len(s)
        m == Len(pat)
        hits == { i \in start..(n - m) : SubSeq(s, i + 1, i + m) = pat }
    IN IF hits = {} THEN -1 ELSE CHOOSE i \in hits : \A j \in hits : i <= j

\* pat in s
PyContains(s, pat) == PyFind(s, pat, 0) >= 0

Whitespace == {" ", "\n", "\t", "\r"}

\* s.strip()
PyStrip(s) ==
    LET n == Len(s)
        keep == { i \in 1..n : SubSeq(s, i, i) \notin Whitespace }
    IN IF keep = {} THEN ""
       ELSE SubSeq(s, CHOOSE i \in keep : \A j \in keep : i <= j,
                      CHOOSE i \in keep : \A j \in keep : i >= j)

\* ------------------------------------------------------------------- JSON

Digits == {"0", "1", "2", "3", "4", "5", "6", "7", "8", "9"}

IsDigits(s) == Len(s) > 0 /\ \A i \in 1..Len(s) : SubSeq(s, i, i) \in Digits

JsonStr(s) == "\"" \o s \o "\""

\* json.dumps(v) with the default separators, for the values of this model
\* (strings without characters that need escaping).
RECURSIVE JsonDumps(_)
JsonDumps(v) ==
    CASE v.t = "none" -> "null"
      [] v.t = "str" -> JsonStr(v.v)
      [] v.t = "int" -> v.v
      [] v.t = "dict" ->
            IF v.v = <<>> THEN "{}"
            ELSE "{" \o JsonStr(v.v[1]) \o ": " \o JsonDumps(v.v[2]) \o "}"

\* What json.loads raises on: json.JSONDecodeError.
JsonDecodeError == [t |-> "error", v |-> "JSONDecodeError"]

\* json.loads(text) over the JSON subset of this model: null, unsigned
\* integers, escape-free strings, {} and one-key objects; anything else raises.
RECURSIVE JsonLoads(_)
JsonLoads(text) ==
    LET n == Len(text)
        inner == PySlice(text, 1, -1)
    IN  IF text = "null" THEN PyNone
        ELSE IF IsDigits(text) THEN [t |-> "int", v |-> text]
        ELSE IF n >= 2 /\ SubSeq(text, 1, 1) = "\"" /\ SubSeq(text, n, n) = "\""
                /\ ~PyContains(inner, "\"")
             THEN PyStr(inner)
        ELSE IF n >= 2 /\ SubSeq(text, 1, 1) = "{" /\ SubSeq(text, n, n) = "}"
             THEN LET body == PyStrip(inner)
                      kend == PyFind(body, "\"", 1)
                      key == PySlice(body, 1, kend)
                      rest == PyStrip(PySlice(body, kend + 1, Len(body)))
                      val == IF Len(rest) > 0 /\ SubSeq(rest, 1, 1) = ":"
                             THEN JsonLoads(PyStrip(PySlice(rest, 1, Len(rest))))
                             ELSE JsonDecodeError
                  IN IF body = "" THEN [t |-> "dict", v |-> <<>>]
                     ELSE IF SubSeq(body, 1, 1) = "\"" /\ kend > 0
                        /\ val # JsonDecodeError
                     THEN PyDict(key, val)
                     ELSE JsonDecodeError
        ELSE JsonDecodeError

\* json.dumps of a list of strings.
RECURSIVE JoinQuoted(_)
JoinQuoted(ids) ==
    IF Len(ids) = 0 THEN ""
    ELSE IF Len(ids) = 1 THEN JsonStr(ids[1])
    ELSE JsonStr(ids[1]) \o ", " \o JoinQuoted(Tail(ids))

JsonDumpsStrList(ids) == "[" \o JoinQuoted(ids) \o "]"

\* The strings of '"a", "b", ...' in order.
RECURSIVE SplitQuoted(_)
SplitQuoted(body) ==
    IF body = "" THEN <<>>
    ELSE LET close == PyFind(body, "\"", 1)
             next == PyFind(body, "\"", close + 1)
         IN <<PySlice(body, 1, close)>>
                \o (IF next < 0 THEN <<>> ELSE SplitQuoted(PySlice(body, next, Len(body))))

JsonLoadsStrList(text) == SplitQuoted(PySlice(text, 1, -1))

JsonDumpsBool(b) == IF b THEN "true" ELSE "false"
JsonLoadsBool(text) == text = "true"

\* int(text) for a decimal numeral of the model's range.
ParseInt(text) == CHOOSE k \in 0..99 : ToString(k) = text

\* ------------------------------------------------------------ cache keys

\* hashlib.sha256(message_str.encode()).hexdigest()[:32]: the digests of the
\* model's strings; any other string gets a digest of its own.
Sha256Hex32(s) ==
    CASE s = "Hello" -> "185f8db32271fe25f561a6fc938b2e26"
      [] s = "7" -> "7902699be42c8a8e46fbbb4501726517"
      [] s = "general query" -> "b6ee0a0b932ebe33e019f84af209079f"
      [] OTHER -> "sha256 of " \o s

\* json.dumps(message, sort_keys=True) if isinstance(message, (dict, list))
\* else str(message)
MessageStr(message) ==
    IF message.t = "dict" THEN JsonDumps(message) ELSE message.v

ContentHash(message) == Sha256Hex32(MessageStr(message))

\* assistant_id = str(assistant.id) if assistant else "default"
AssistantIdOrDefault(assistant) ==
    IF assistant # NoAssistant THEN assistant.id ELSE "default"

\* cache_suffix = f":{assistant_id}"
CacheSuffix(assistant) == ":" \o AssistantIdOrDefault(assistant)

CachePrefix == "query"

\* GenerateCacheKey that leaves the suffix out.
GenerateCacheKeyNoSuffix(tenant_id, content_hash, cache_key_suffix) ==
    CachePrefix \o ":" \o tenant_id \o ":" \o content_hash

\* f"{self.prefix}:{tenant_id}:{content_hash}{cache_key_suffix}"
GenerateCacheKey(tenant_id, content_hash, cache_key_suffix) ==
    CachePrefix \o ":" \o tenant_id \o ":" \o content_hash \o cache_key_suffix

\* The key RAGService.query uses for a request.
RequestCacheKey(r) ==
    GenerateCacheKey(r.tenant.id, ContentHash(r.message), CacheSuffix(r.assistant))

\* ------------------------------------------------------------- completion

\* The completion texts the provider may return.
LLMTexts == { "Hola", "{\"score\": 4}" }

\* The markdown code fence. A TLA+ string cannot hold a backtick, so each
\* backtick of the source is written as an apostrophe.
Fence == "'''"
FenceJson == Fence \o "json"

\* LLMService._try_parse_json
TryParseJson(raw) ==
    LET text == PyStrip(raw)
        direct == JsonLoads(text)
        jstart == PyFind(text, FenceJson, 0) + 7
        jend == PyFind(text, Fence, jstart)
        jfenced == JsonLoads(PyStrip(PySlice(text, jstart, jend)))
        fstart == PyFind(text, Fence, 0) + 3
        fend == PyFind(text, Fence, fstart)
        fenced == JsonLoads(PyStrip(PySlice(text, fstart, fend)))
    IN  IF direct # JsonDecodeError THEN direct
        ELSE IF PyContains(text, FenceJson) /\ jfenced # JsonDecodeError THEN jfenced
        ELSE IF PyContains(text, Fence) /\ fenced # JsonDecodeError THEN fenced
        ELSE PyStr(text)

\* --------------------------------------------------------- search query

SearchTextChars == 500

SearchFields == <<"query", "question", "text", "content", "message", "search">>

\* A dict with any number of keys (v: key -> value) and a list (v: sequence).
PyMap(f) == [t |-> "map", v |-> f]
PyList(items) == [t |-> "list", v |-> items]

\* What " ".join raises on an item that is no string.
PyTypeError == [t |-> "error", v |-> "TypeError"]

IsDict(x) == x.t \in {"dict", "map"}

\* The key -> value function of a dict value.
Items(x) ==
    IF x.t = "map" THEN x.v
    ELSE IF x.v = <<>> THEN <<>>
    ELSE x.v[1] :> x.v[2]

HasKey(x, key) == IsDict(x) /\ key \in DOMAIN Items(x)

\* sep.join(parts) for parts that are strings.
RECURSIVE PyJoin(_, _)
PyJoin(sep, parts) ==
    IF parts = <<>> THEN ""
    ELSE IF Len(parts) = 1 THEN parts[1]
    ELSE parts[1] \o sep \o PyJoin(sep, Tail(parts))

\* [f(x) for x in items if keep(x)] as a sequence, in order.
Collect(items, keep(_), f(_)) ==
    LET kept == { i \in 1..Len(items) : keep(items[i]) }
        nth(k) == CHOOSE i \in kept : Cardinality({ j \in kept : j < i }) = k - 1
    IN  [k \in 1..Cardinality(kept) |-> f(items[nth(k)])]

\* ExtractSearchText that takes every entry of questions, not the first three.
ExtractSearchTextNoLimit(data) ==
    LET strField(key) == HasKey(data, key) /\ Items(data)[key].t = "str"
        fieldOf(key) == Items(data)[key]
        asked(q) == HasKey(q, "question")
        questionOf(q) == Items(q)["question"]
        fromFields == Collect(SearchFields, strField, fieldOf)
        fromQuestions ==
            IF HasKey(data, "questions") /\ Items(data)["questions"].t = "list"
            THEN Collect(Items(data)["questions"].v, asked, questionOf)
            ELSE <<>>
        parts == fromFields \o fromQuestions
        texts == [i \in 1..Len(parts) |-> parts[i].v]
        result == PyJoin(" ", texts)
    IN  IF data.t = "str" THEN PyStr(PySlice(data.v, 0, SearchTextChars))
        ELSE IF \E i \in 1..Len(parts) : parts[i].t # "str" THEN PyTypeError
        ELSE IF result # "" THEN PyStr(PySlice(result, 0, SearchTextChars))
        ELSE PyStr("general query")

\* RAGService._extract_search_text(data): a PyStr, or the TypeError that
\* " ".join raises when a collected question is no string.
ExtractSearchText(data) ==
    LET strField(key) == HasKey(data, key) /\ Items(data)[key].t = "str"
        fieldOf(key) == Items(data)[key]
        asked(q) == HasKey(q, "question")
        questionOf(q) == Items(q)["question"]
        strOrAsked(item) == item.t = "str" \/ asked(item)
        itemText(item) == IF item.t = "str" THEN item ELSE questionOf(item)
        fromFields == Collect(SearchFields, strField, fieldOf)
        fromQuestions ==
            IF HasKey(data, "questions") /\ Items(data)["questions"].t = "list"
            THEN Collect(SubSeq(Items(data)["questions"].v, 1,
                                Min(3, Len(Items(data)["questions"].v))),
                         asked, questionOf)
            ELSE <<>>
        fromList ==
            IF data.t = "list"
            THEN Collect(SubSeq(data.v, 1, Min(3, Len(data.v))), strOrAsked, itemText)
            ELSE <<>>
        parts == IF IsDict(data) THEN fromFields \o fromQuestions ELSE fromList
        texts == [i \in 1..Len(parts) |-> parts[i].v]
        result == PyJoin(" ", texts)
    IN  IF data.t = "str" THEN PyStr(PySlice(data.v, 0, SearchTextChars))
        ELSE IF \E i \in 1..Len(parts) : parts[i].t # "str" THEN PyTypeError
        ELSE IF result # "" THEN PyStr(PySlice(result, 0, SearchTextChars))
        ELSE PyStr("general query")

\* RAGService.query, "Determine search query for knowledge base"
\* (search_query is PyNone or a PyStr).
KbQuery(r) ==
    IF r.search_query.t = "str" /\ r.search_query.v # "" THEN r.search_query
    ELSE IF r.message.t = "str" THEN PyStr(PySlice(r.message.v, 0, SearchTextChars))
    ELSE ExtractSearchText(r.message)

\* ---------------------------------------------------------------- requests

\* The arguments of one RAGService.query call.
MkRequest(tenant, assistant, message) ==
    [tenant |-> tenant, assistant |-> assistant, message |-> message,
     instructions |-> PyNone, search_query |-> PyNone, top_k |-> DefaultTopK]

TenantOf(id) == CHOOSE tn \in Tenants : tn.id = id
AssistantOf(id) == CHOOSE a \in Assistants : a.id = id

Requests ==
    { MkRequest(TenantOf("T1"), NoAssistant, PyStr("Hello")),
      MkRequest(TenantOf("T1"), AssistantOf("A1"), PyStr("Hello")),
      MkRequest(TenantOf("T1"), AssistantOf("A2"), PyStr("Hello")),
      MkRequest(TenantOf("T2"), NoAssistant, PyStr("Hello")),
      MkRequest(TenantOf("T2"), AssistantOf("A1"), PyStr("Hello")),
      MkRequest(TenantOf("T1"), NoAssistant, PyStr("7")),
      MkRequest(TenantOf("T1"), NoAssistant, PyInt(7)) }

\* The requests concurrent callers draw from.
RaceRequests ==
    { MkRequest(TenantOf("T1"), NoAssistant, PyStr("Hello")),
      MkRequest(TenantOf("T1"), AssistantOf("A1"), PyStr("Hello")),
      MkRequest(TenantOf("T2"), NoAssistant, PyStr("Hello")) }

\* ------------------------------------------------------------ vector index

\* GetNamespace that leaves the tenant out.
GetNamespaceShared(tenant_slug) == "tenant_"

\* VectorStoreService._get_namespace
GetNamespace(tenant_slug) == "tenant_" \o tenant_slug

\* The metadata upsert_documents stores with a vector.
VectorMetadata(doc, tenant_slug) ==
    [document_type |-> doc.document_type,
     content |-> PySlice(doc.content, 0, StoredContentChars),
     tenant_slug |-> tenant_slug]

\* Sequences over S without repetition, of length n.
RECURSIVE Arrangements(_, _)
Arrangements(S, n) ==
    IF n = 0 THEN {<<>>}
    ELSE UNION { { <<x>> \o rest : rest \in Arrangements(S \ {x}, n - 1) } : x \in S }

\* The ids stored under a namespace of an index idx (a function on <<ns, id>>).
IdsIn(idx, namespace) == { k[2] : k \in { kk \in DOMAIN idx : kk[1] = namespace } }

\* filter: PyNone, or a one-key dict {field: value} a match's metadata must carry.
Matches(idx, namespace, filter) ==
    { id \in IdsIn(idx, namespace) :
        filter.t = "none" \/ idx[<<namespace, id>>][filter.v[1]] = filter.v[2].v }

\* index.query(vector, top_k, namespace, filter): the rankings the index may
\* return; the order of equally similar vectors is the index's own.
QueryMatches(idx, namespace, top_k, filter) ==
    LET m == Matches(idx, namespace, filter)
    IN Arrangements(m, Min(top_k, Cardinality(m)))

\* ----------------------------------------------------------------- results

OptStr(present, s) == IF present THEN PyStr(s) ELSE PyNone

\* RAGService.query, "Build result".
BuildResult(query_id, r, response, rag_chunks, elapsed) ==
    [query_id |-> query_id,
     tenant_id |-> r.tenant.id,
     assistant_id |-> OptStr(r.assistant # NoAssistant, r.assistant.id),
     assistant_name |-> OptStr(r.assistant # NoAssistant, r.assistant.name),
     response |-> response,
     knowledge_chunks_used |-> Len(rag_chunks),
     chunks_ids |-> rag_chunks,
     cached |-> FALSE,
     processing_time_ms |-> elapsed]

\* json.dumps(result, ensure_ascii=False): the JSON text of every member.
JsonDumpsResult(result) ==
    [query_id |-> JsonStr(result.query_id),
     tenant_id |-> JsonStr(result.tenant_id),
     assistant_id |-> JsonDumps(result.assistant_id),
     assistant_name |-> JsonDumps(result.assistant_name),
     response |-> JsonDumps(result.response),
     knowledge_chunks_used |-> ToString(result.knowledge_chunks_used),
     chunks_ids |-> JsonDumpsStrList(result.chunks_ids),
     cached |-> JsonDumpsBool(result.cached),
     processing_time_ms |-> ToString(result.processing_time_ms)]

\* json.loads(cached) in CacheService.get_cached_result.
JsonLoadsResult(payload) ==
    [query_id |-> JsonLoads(payload.query_id).v,
     tenant_id |-> JsonLoads(payload.tenant_id).v,
     assistant_id |-> JsonLoads(payload.assistant_id),
     assistant_name |-> JsonLoads(payload.assistant_name),
     response |-> JsonLoads(payload.response),
     knowledge_chunks_used |-> ParseInt(payload.knowledge_chunks_used),
     chunks_ids |-> JsonLoadsStrList(payload.chunks_ids),
     cached |-> JsonLoadsBool(payload.cached),
     processing_time_ms |-> ParseInt(payload.processing_time_ms)]

\* HitResult that forgets cached["cached"] = True.
HitResultNoFlag(cached, query_id, elapsed) ==
    [cached EXCEPT !.query_id = query_id, !.processing_time_ms = elapsed]

\* HitResult that forgets cached["query_id"] = query_id.
HitResultStaleId(cached, query_id, elapsed) ==
    [cached EXCEPT !.cached = TRUE, !.processing_time_ms = elapsed]

\* RAGService.query, "if cached:": the three members a hit overwrites.
HitResult(cached, query_id, elapsed) ==
    [cached EXCEPT !.cached = TRUE,
                   !.query_id = query_id,
                   !.processing_time_ms = elapsed]

\* cache_ttl_seconds
CacheTtlSeconds == 86400

\* str(uuid4()): the n-th id drawn.
Uuid4(n) == "q" \o ToString(n)

\* -------------------------------------------------------------------- state

VARIABLES
    cache,      \* Redis: key -> [value: the stored JSON, ttl: seconds]
    index,      \* Pinecone: <<namespace, id>> -> metadata
    pc,         \* per coroutine: where RAGService.query stands
    req,        \* per coroutine: the arguments of the running call
    loc,        \* per coroutine: the locals of the running call
    calls,      \* per coroutine: the remote calls the running call has made
    nextId,     \* the number of the next uuid4 drawn
    written,    \* history: key -> the result dict last handed to cache_result
    lastOk,     \* history: request triple -> the response of its last successful
                \* call and the key it was served under, while that entry lives
    batch,      \* batch_query: the request list
    bi,         \* batch_query: the loop index (0-based)
    results,    \* batch_query: the results list
    bpc,        \* batch_query: where the handler stands
    vsOut,      \* the outcome of the last vector-store call
    documents,  \* the documents table: document id -> Document row
    ing,        \* per ingestion handler: where it stands and its locals
    nextDoc,    \* the number of the next document uuid4 drawn
    produced,   \* history: document id -> the ids of the vectors upserted for it,
                \* whether it was completed, whether it was deleted
    inv,        \* invalidate_tenant_cache: where the call stands and its locals
    fx,         \* the last call of a pure function: name, arguments, value
    pinecone    \* the indexes Pinecone holds, the _index handle of the
                \* VectorStoreService instance and the calls it has made

qvars == <<cache, pc, req, loc, calls, nextId, written, lastOk>>
bvars == <<batch, bi, results, bpc>>
evars == <<documents, ing, nextDoc, produced, inv, fx, pinecone>>
vars == <<cache, index, pc, req, loc, calls, nextId, written, lastOk,
          batch, bi, results, bpc, vsOut, documents, ing, nextDoc, produced, inv, fx, pinecone>>

\* The coroutines that may run RAGService.query at the same time.
Queries == {1, 2}

NoRequest == MkRequest(TenantOf("T1"), NoAssistant, PyNone)
NoResult == [query_id |-> "-"]

IdleLocals ==
    [query_id |-> "-", rag_chunks |-> <<>>, result |-> NoResult, elapsed |-> 0,
     error |-> "", hit_from |-> NoResult, raced |-> {}]

\* (tenant, assistant, message) of a request.
Triple(r) == <<r.tenant.id, r.assistant.id, r.message>>

\* The states of a call that has missed the cache and not yet stored.
Computing == {"retrieve_embed", "retrieve_search", "complete", "store_cache"}

\* f without the argument k.
Without(f, k) == [x \in (DOMAIN f) \ {k} |-> f[x]]

\* A small knowledge base: one chunk of tenant acme, none of tenant beta.
SampleIndex ==
    <<GetNamespace("acme"), "d1_chunk_0">> :>
        [document_type |-> "rubric", content |-> "alpha", tenant_slug |-> "acme"]

NoOutcome == [op |-> "none"]

\* The handlers of the documents router that may run at the same time.
Handlers == {1, 2}

\* The handlers a client runs that awaits each response before its next call.
Uploads == {1}

IdleUpload == [pc |-> "idle"]

IdleInvalidate == [pc |-> "idle"]

NoCall == [fn |-> "none"]

\* settings.pinecone_index_name
IndexName == "reskilling-rag"
\* settings.embedding_dimensions
EmbeddingDimensions == 1024

\* The index as VectorStoreService.index creates it.
ConfiguredIndex ==
    [name |-> IndexName, dimension |-> EmbeddingDimensions, metric |-> "cosine"]

\* A VectorStoreService instance that has used its index: the index exists
\* and self._index holds its handle.
LoadedIndex ==
    [indexes |-> {ConfiguredIndex}, _index |-> PyStr(IndexName), log |-> <<>>]

\* No call in progress, an empty cache, no document.
Quiescent ==
    /\ cache = <<>>
    /\ pc = [q \in Queries |-> "idle"]
    /\ req = [q \in Queries |-> NoRequest]
    /\ loc = [q \in Queries |-> IdleLocals]
    /\ calls = [q \in Queries |-> <<>>]
    /\ nextId = 1
    /\ written = <<>>
    /\ lastOk = <<>>
    /\ batch = <<>>
    /\ bi = 0
    /\ results = <<>>
    /\ bpc = "off"
    /\ vsOut = NoOutcome
    /\ documents = <<>>
    /\ ing = [u \in Handlers |-> IdleUpload]
    /\ nextDoc = 1
    /\ produced = <<>>
    /\ inv = IdleInvalidate
    /\ fx = NoCall

QueryInit ==
    /\ Quiescent
    /\ index = SampleIndex
    /\ pinecone = LoadedIndex

\* ------------------------------------------------------- RAGService.query

\* A remote call of coroutine q that raises: the exception leaves query().
Raise(q, call) ==
    /\ pc' = [pc EXCEPT ![q] = "failed"]
    /\ loc' = [loc EXCEPT ![q].error = call, ![q].elapsed = @ + 1]
    /\ calls' = [calls EXCEPT ![q] = Append(@, call)]
    /\ UNCHANGED <<cache, index, req, nextId, written, lastOk, bvars, vsOut, evars>>

\* RAGService.query is entered: start_time, query_id = str(uuid4()).
StartCall(q, r) ==
    /\ pc[q] = "idle"
    /\ pc' = [pc EXCEPT ![q] = "cache_lookup"]
    /\ req' = [req EXCEPT ![q] = r]
    /\ loc' = [loc EXCEPT ![q] = [IdleLocals EXCEPT !.query_id = Uuid4(nextId)]]
    /\ calls' = [calls EXCEPT ![q] = <<>>]
    /\ nextId' = nextId + 1
    /\ UNCHANGED <<cache, index, written, lastOk>>

\* A caller (query_assistant, or a test) calls RAGService.query directly.
StartQuery(q, r) ==
    /\ nextId <= MaxCalls
    /\ StartCall(q, r)
    /\ UNCHANGED <<bvars, vsOut, evars>>

\* GetCachedResult whose hit branch does not return.
GetCachedResultNoReturn(q) ==
    /\ pc[q] = "cache_lookup"
    /\ LET r == req[q]
           key == GenerateCacheKey(r.tenant.id, ContentHash(r.message),
                                   CacheSuffix(r.assistant))
           hit == key \in DOMAIN cache
           now == loc[q].elapsed + 1
       IN  loc' = [loc EXCEPT
                  ![q].elapsed = now,
                  ![q].result =
                      IF hit
                      THEN HitResult(JsonLoadsResult(cache[key].value),
                                     loc[q].query_id, now)
                      ELSE NoResult,
                  ![q].hit_from = IF hit THEN written[key] ELSE NoResult]
    /\ pc' = [pc EXCEPT ![q] = "retrieve_embed"]
    /\ calls' = [calls EXCEPT ![q] = Append(@, "cache_get")]
    /\ UNCHANGED <<cache, index, req, nextId, written, lastOk, bvars, vsOut, evars>>

\* GetCachedResult whose hit stores the entry again (and so renews its TTL).
GetCachedResultRewrites(q) ==
    /\ pc[q] = "cache_lookup"
    /\ LET r == req[q]
           key == GenerateCacheKey(r.tenant.id, ContentHash(r.message),
                                   CacheSuffix(r.assistant))
           hit == key \in DOMAIN cache
           now == loc[q].elapsed + 1
           got == IF hit
                  THEN HitResult(JsonLoadsResult(cache[key].value), loc[q].query_id, now)
                  ELSE NoResult
       IN  /\ pc' = [pc EXCEPT ![q] = IF hit THEN "done" ELSE "retrieve_embed"]
           /\ loc' = [loc EXCEPT
                  ![q].elapsed = now,
                  ![q].result = got,
                  ![q].hit_from = IF hit THEN written[key] ELSE NoResult,
                  ![q].raced =
                      IF hit THEN {}
                      ELSE { o \in Queries \ {q} :
                               pc[o] \in Computing /\ RequestCacheKey(req[o]) = key }]
           /\ cache' = IF hit
                       THEN (key :> [value |-> JsonDumpsResult(got),
                                     ttl |-> CacheTtlSeconds]) @@ cache
                       ELSE cache
    /\ calls' = [calls EXCEPT ![q] = Append(@, "cache_get")]
    /\ UNCHANGED <<index, req, nextId, written, lastOk, bvars, vsOut, evars>>

\* cache_service.get_cached_result and "if cached:".
GetCachedResult(q) ==
    /\ pc[q] = "cache_lookup"
    /\ LET r == req[q]
           key == GenerateCacheKey(r.tenant.id, ContentHash(r.message),
                                   CacheSuffix(r.assistant))
           hit == key \in DOMAIN cache
           now == loc[q].elapsed + 1
       IN  /\ pc' = [pc EXCEPT ![q] = IF hit THEN "done" ELSE "retrieve_embed"]
           /\ loc' = [loc EXCEPT
                  ![q].elapsed = now,
                  ![q].result =
                      IF hit
                      THEN HitResult(JsonLoadsResult(cache[key].value),
                                     loc[q].query_id, now)
                      ELSE NoResult,
                  ![q].hit_from = IF hit THEN written[key] ELSE NoResult,
                  ![q].raced =
                      IF hit THEN {}
                      ELSE { o \in Queries \ {q} :
                               pc[o] \in Computing /\ RequestCacheKey(req[o]) = key }]
    /\ calls' = [calls EXCEPT ![q] = Append(@, "cache_get")]
    /\ UNCHANGED <<cache, index, req, nextId, written, lastOk, bvars, vsOut, evars>>

\* redis.get raises: get_cached_result has no handler, nor has query().
GetCachedResultRaises(q) ==
    /\ pc[q] = "cache_lookup"
    /\ Raise(q, "cache_get")

\* vector_store.search: embedding_service.embed_text(query).
EmbedQuery(q) ==
    /\ pc[q] = "retrieve_embed"
    /\ pc' = [pc EXCEPT ![q] = "retrieve_search"]
    /\ loc' = [loc EXCEPT ![q].elapsed = @ + 1]
    /\ calls' = [calls EXCEPT ![q] = Append(@, "embed")]
    /\ UNCHANGED <<cache, index, req, nextId, written, lastOk, bvars, vsOut, evars>>

EmbedQueryRaises(q) ==
    /\ pc[q] = "retrieve_embed"
    /\ Raise(q, "embed")

\* vector_store.search: index.query in the tenant's namespace.
SearchIndex(q) ==
    /\ pc[q] = "retrieve_search"
    /\ \E ranking \in QueryMatches(index, GetNamespace(req[q].tenant.slug),
                                   req[q].top_k, PyNone) :
           loc' = [loc EXCEPT ![q].rag_chunks = ranking, ![q].elapsed = @ + 1]
    /\ pc' = [pc EXCEPT ![q] = "complete"]
    /\ calls' = [calls EXCEPT ![q] = Append(@, "index_query")]
    /\ UNCHANGED <<cache, index, req, nextId, written, lastOk, bvars, vsOut, evars>>

SearchIndexRaises(q) ==
    /\ pc[q] = "retrieve_search"
    /\ Raise(q, "index_query")

\* llm_service.query and "Build result".
Complete(q) ==
    /\ pc[q] = "complete"
    /\ \E raw \in LLMTexts :
           loc' = [loc EXCEPT
               ![q].elapsed = @ + 1,
               ![q].result = BuildResult(loc[q].query_id, req[q], TryParseJson(raw),
                                         loc[q].rag_chunks, loc[q].elapsed + 1)]
    /\ pc' = [pc EXCEPT ![q] = "store_cache"]
    /\ calls' = [calls EXCEPT ![q] = Append(@, "llm")]
    /\ UNCHANGED <<cache, index, req, nextId, written, lastOk, bvars, vsOut, evars>>

\* CompleteRaises that caches an error result before it re-raises.
CompleteRaisesAfterStore(q) ==
    /\ pc[q] = "complete"
    /\ LET bad == BuildResult(loc[q].query_id, req[q], PyStr("error"),
                              loc[q].rag_chunks, loc[q].elapsed + 1)
       IN  /\ cache' = (RequestCacheKey(req[q]) :>
                            [value |-> JsonDumpsResult(bad), ttl |-> CacheTtlSeconds])
                        @@ cache
           /\ written' = (RequestCacheKey(req[q]) :> bad) @@ written
    /\ pc' = [pc EXCEPT ![q] = "failed"]
    /\ loc' = [loc EXCEPT ![q].error = "llm", ![q].elapsed = @ + 1]
    /\ calls' = [calls EXCEPT ![q] = Append(@, "llm")]
    /\ UNCHANGED <<index, req, nextId, lastOk, bvars, vsOut, evars>>

CompleteRaises(q) ==
    /\ pc[q] = "complete"
    /\ Raise(q, "llm")

\* CacheResult that writes only where no entry is (SET NX) and otherwise waits.
CacheResultIfAbsent(q) ==
    /\ pc[q] = "store_cache"
    /\ RequestCacheKey(req[q]) \notin DOMAIN cache
    /\ cache' = (RequestCacheKey(req[q]) :>
                     [value |-> JsonDumpsResult(loc[q].result), ttl |-> CacheTtlSeconds])
                 @@ cache
    /\ written' = (RequestCacheKey(req[q]) :> loc[q].result) @@ written
    /\ pc' = [pc EXCEPT ![q] = "done"]
    /\ loc' = [loc EXCEPT ![q].elapsed = @ + 1]
    /\ calls' = [calls EXCEPT ![q] = Append(@, "cache_set")]
    /\ UNCHANGED <<index, req, nextId, lastOk, bvars, vsOut, evars>>

\* cache_service.cache_result: redis.setex(key, ttl, json.dumps(result)).
CacheResult(q) ==
    /\ pc[q] = "store_cache"
    /\ LET r == req[q]
           key == GenerateCacheKey(r.tenant.id, ContentHash(r.message),
                                   CacheSuffix(r.assistant))
       IN  /\ cache' = (key :> [value |-> JsonDumpsResult(loc[q].result),
                                ttl |-> CacheTtlSeconds]) @@ cache
           /\ written' = (key :> loc[q].result) @@ written
    /\ pc' = [pc EXCEPT ![q] = "done"]
    /\ loc' = [loc EXCEPT ![q].elapsed = @ + 1]
    /\ calls' = [calls EXCEPT ![q] = Append(@, "cache_set")]
    /\ UNCHANGED <<index, req, nextId, lastOk, bvars, vsOut, evars>>

\* redis.setex raises: cache_result has no handler, nor has query().
CacheResultRaises(q) ==
    /\ pc[q] = "store_cache"
    /\ Raise(q, "cache_set")

\* The call returns its result, or its exception reaches the caller.
ReturnCall(q) ==
    /\ pc[q] \in {"done", "failed"}
    /\ lastOk' =
           IF pc[q] = "done" /\ RequestCacheKey(req[q]) \in DOMAIN cache
           THEN (Triple(req[q]) :> [response |-> loc[q].result.response,
                                    key |-> RequestCacheKey(req[q])]) @@ lastOk
           ELSE lastOk
    /\ pc' = [pc EXCEPT ![q] = "idle"]
    /\ req' = [req EXCEPT ![q] = NoRequest]
    /\ loc' = [o \in Queries |->
                  IF o = q THEN IdleLocals
                  ELSE [loc[o] EXCEPT !.raced = @ \ {q}]]
    /\ calls' = [calls EXCEPT ![q] = <<>>]
    /\ UNCHANGED <<cache, index, nextId, written>>

Return(q) ==
    /\ ReturnCall(q)
    /\ UNCHANGED <<bvars, vsOut, evars>>

\* Redis drops an entry whose TTL has run out.
Expire(key) ==
    /\ key \in DOMAIN cache
    /\ cache' = Without(cache, key)
    /\ written' = Without(written, key)
    /\ lastOk' = [tr \in { x \in DOMAIN lastOk : lastOk[x].key # key } |-> lastOk[tr]]
    /\ UNCHANGED <<index, pc, req, loc, calls, nextId, bvars, vsOut, evars>>

QueryNext ==
    \/ \E q \in Queries, r \in RaceRequests : StartQuery(q, r)
    \/ \E q \in Queries : GetCachedResult(q)
    \/ \E q \in Queries : GetCachedResultRaises(q)
    \/ \E q \in Queries : EmbedQuery(q)
    \/ \E q \in Queries : EmbedQueryRaises(q)
    \/ \E q \in Queries : SearchIndex(q)
    \/ \E q \in Queries : SearchIndexRaises(q)
    \/ \E q \in Queries : Complete(q)
    \/ \E q \in Queries : CompleteRaises(q)
    \/ \E q \in Queries : CacheResult(q)
    \/ \E q \in Queries : CacheResultRaises(q)
    \/ \E q \in Queries : Return(q)
    \/ \E key \in DOMAIN cache : Expire(key)

\* Concurrent callers of RAGService.query over one cache and one index.
SpecQuery == QueryInit /\ [][QueryNext]_vars

\* One caller that awaits each call before it makes the next.
SeqClient == CHOOSE q \in Queries : \A o \in Queries : q <= o

SeqNext ==
    \/ \E r \in Requests : StartQuery(SeqClient, r)
    \/ GetCachedResult(SeqClient)
    \/ GetCachedResultRaises(SeqClient)
    \/ EmbedQuery(SeqClient)
    \/ EmbedQueryRaises(SeqClient)
    \/ SearchIndex(SeqClient)
    \/ SearchIndexRaises(SeqClient)
    \/ Complete(SeqClient)
    \/ CompleteRaises(SeqClient)
    \/ CacheResult(SeqClient)
    \/ CacheResultRaises(SeqClient)
    \/ Return(SeqClient)
    \/ \E key \in DOMAIN cache : Expire(key)

SpecSeq == QueryInit /\ [][SeqNext]_vars

\* ------------------------------------------------- claims: RAGService.query

\* A finished call that was answered from the cache.
IsHit(q) == pc[q] = "done" /\ loc[q].hit_from # NoResult

\* A finished call that computed its answer.
IsMiss(q) == pc[q] = "done" /\ loc[q].hit_from = NoResult

MissCalls == <<"cache_get", "embed", "index_query", "llm", "cache_set">>

\* The members of a result other than cached, query_id and processing_time_ms.
SamePayload(a, b) ==
    /\ a.tenant_id = b.tenant_id
    /\ a.assistant_id = b.assistant_id
    /\ a.assistant_name = b.assistant_name
    /\ a.response = b.response
    /\ a.knowledge_chunks_used = b.knowledge_chunks_used
    /\ a.chunks_ids = b.chunks_ids

\* C1: when a call for (T, A, M) has completed successfully and the same
\* (T, A, M) is queried again while its entry has not expired and the cache
\* lookup does not raise, the lookup ends the call with cached = true and the
\* response of the earlier call.
C1_RepeatIsServedFromCache ==
    [][\A q \in Queries :
          (/\ pc[q] = "cache_lookup"
           /\ pc'[q] \notin {"cache_lookup", "failed"}
           /\ Triple(req[q]) \in DOMAIN lastOk)
          => (/\ pc'[q] = "done"
              /\ loc'[q].result.cached = TRUE
              /\ loc'[q].result.response = lastOk[Triple(req[q])].response)]_vars

\* C1 witness: a repeated call has been answered from the cache with the
\* response of the earlier call.
C1_Witness ==
    \E q \in Queries :
        /\ pc[q] = "done"
        /\ Triple(req[q]) \in DOMAIN lastOk
        /\ loc[q].result.cached
        /\ loc[q].result.response = lastOk[Triple(req[q])].response

\* C3 (the claim as stated): a call whose cache lookup raised goes on as on a
\* miss and does not fail.
C3_LookupFailureIsAMiss ==
    \A q \in Queries :
        loc[q].error = "cache_get" => pc[q] \in Computing \cup {"done"}

\* C4 (the claim as stated): a call whose cache store raised still returns
\* its freshly computed result.
C4_StoreFailureIsSwallowed ==
    \A q \in Queries :
        loc[q].error = "cache_set" => (pc[q] = "done" /\ ~loc[q].result.cached)

\* C5: an entry that carries a call's query_id is in the cache only when that
\* call has made its embedding, search and completion calls, in that order,
\* and then the store; a call that failed in one of them has left no entry.
C5_StoreOnlyAfterSuccess ==
    \A q \in Queries : \A key \in DOMAIN cache :
        JsonLoadsResult(cache[key].value).query_id = loc[q].query_id
        => (/\ pc[q] = "done"
            /\ calls[q] = MissCalls
            /\ loc[q].error = "")

\* C5 witness: a call failed in the completion step and its key has no entry.
C5_Witness ==
    \E q \in Queries :
        /\ pc[q] = "failed"
        /\ loc[q].error = "llm"
        /\ RequestCacheKey(req[q]) \notin DOMAIN cache

\* C6: requests with the same message that differ in tenant id or in
\* assistant identity have different cache keys, and a hit is only ever
\* answered from an entry stored for the same tenant and assistant.
C6_KeysSeparateTenantsAndAssistants ==
    /\ \A r1, r2 \in Requests :
           (r1.message = r2.message
            /\ (r1.tenant.id # r2.tenant.id \/ r1.assistant.id # r2.assistant.id))
           => RequestCacheKey(r1) # RequestCacheKey(r2)
    /\ \A q \in Queries :
           IsHit(q) =>
               /\ loc[q].hit_from.tenant_id = req[q].tenant.id
               /\ loc[q].hit_from.assistant_id
                      = OptStr(req[q].assistant # NoAssistant, req[q].assistant.id)

\* C6 witness: a call missed the cache while an entry for the same message
\* under another tenant or assistant was stored.
C6_Witness ==
    \E q \in Queries : \E r \in Requests :
        /\ pc[q] \in Computing
        /\ r.message = req[q].message
        /\ Triple(r) # Triple(req[q])
        /\ RequestCacheKey(r) \in DOMAIN cache

\* C7: the result of a hit equals the result stored by the computing call in
\* every member but three: cached is true (stored false), query_id is the
\* id drawn for this call and differs from the stored one, and
\* processing_time_ms is the time this call took.
C7_HitDiffersInThreeMembers ==
    \A q \in Queries :
        IsHit(q) =>
            LET got == loc[q].result
                stored == loc[q].hit_from
            IN  /\ SamePayload(got, stored)
                /\ got.cached = TRUE
                /\ stored.cached = FALSE
                /\ got.query_id = loc[q].query_id
                /\ got.query_id # stored.query_id
                /\ got.processing_time_ms = loc[q].elapsed

\* C7 witness: a hit whose processing time differs from the stored one.
C7_Witness ==
    \E q \in Queries :
        /\ IsHit(q)
        /\ loc[q].result.processing_time_ms # loc[q].hit_from.processing_time_ms

\* C8: a call makes its remote calls in the order lookup, embedding, search,
\* completion, store, each once; a hit makes the lookup only.
C8_CallOrder ==
    \A q \in Queries :
        /\ pc[q] = "cache_lookup" => calls[q] = <<>>
        /\ pc[q] = "retrieve_embed" => calls[q] = SubSeq(MissCalls, 1, 1)
        /\ pc[q] = "retrieve_search" => calls[q] = SubSeq(MissCalls, 1, 2)
        /\ pc[q] = "complete" => calls[q] = SubSeq(MissCalls, 1, 3)
        /\ pc[q] = "store_cache" => calls[q] = SubSeq(MissCalls, 1, 4)
        /\ IsMiss(q) => calls[q] = MissCalls
        /\ IsHit(q) => calls[q] = <<"cache_get">>

\* C8 witness: one call finished on a hit while another finished on a miss.
C8_Witness ==
    \E q, o \in Queries : IsHit(q) /\ IsMiss(o) /\ calls[o] = MissCalls

\* The steps of a computing call that succeed.
Progress(q) == EmbedQuery(q) \/ SearchIndex(q) \/ Complete(q) \/ CacheResult(q)

LlmCalls(q) == Cardinality({ i \in 1..Len(calls[q]) : calls[q][i] = "llm" })

\* C9: of two calls with the same key that both missed before either
\* stored, each can always take its next step, and each that completes has
\* called the LLM once and returns cached = false.
C9_RacingMissesBothCompute ==
    \A q \in Queries :
        loc[q].raced # {} =>
            \A x \in {q} \cup loc[q].raced :
                /\ pc[x] \in Computing => ENABLED Progress(x)
                /\ pc[x] = "done" => (~loc[x].result.cached /\ LlmCalls(x) = 1)

\* C9 witness: both calls of a race have completed.
C9_Witness ==
    \E q \in Queries : \E o \in loc[q].raced :
        /\ pc[q] = "done"
        /\ pc[o] = "done"
        /\ RequestCacheKey(req[q]) = RequestCacheKey(req[o])
        /\ ~loc[q].result.cached
        /\ ~loc[o].result.cached

\* C22 (the claim as stated): an entry that stays in the cache over a step
\* keeps its stored value and its TTL, whatever the queries do.
C22_EntriesAreNotChanged ==
    [][\A key \in DOMAIN cache :
          IF key \in DOMAIN cache' THEN cache'[key] = cache[key] ELSE TRUE]_vars

\* C22: a lookup leaves the cache as it is and, when it finds the entry of
\* its key, ends the call without a store; an entry that stays in the cache
\* is changed only by the store of a call that missed the cache, that is, of
\* a call whose lookup came before the entry was written.
C22_OnlyRacingMissesOverwrite ==
    [][/\ \A key \in DOMAIN cache :
              IF key \in DOMAIN cache'
              THEN cache'[key] # cache[key] =>
                       \E q \in Queries :
                           /\ pc[q] = "store_cache"
                           /\ pc'[q] = "done"
                           /\ RequestCacheKey(req[q]) = key
                           /\ loc[q].hit_from = NoResult
                           /\ calls[q] = SubSeq(MissCalls, 1, 4)
              ELSE TRUE
       /\ \A q \in Queries :
              (pc[q] = "cache_lookup" /\ pc'[q] # "cache_lookup") =>
                  /\ cache' = cache
                  /\ RequestCacheKey(req[q]) \in DOMAIN cache =>
                         pc'[q] \in {"done", "failed"}]_vars

\* C22 witness: two calls missed on one key and both stored; the entry is
\* the one of the call that stored last, the other's is overwritten.
C22_Witness ==
    \E q, o \in Queries :
        /\ q # o
        /\ IsMiss(q)
        /\ IsMiss(o)
        /\ RequestCacheKey(req[q]) = RequestCacheKey(req[o])
        /\ RequestCacheKey(req[q]) \in DOMAIN cache
        /\ JsonLoadsResult(cache[RequestCacheKey(req[q])].value).query_id = loc[q].query_id
        /\ loc[o].result.query_id # loc[q].query_id

\* C30 (the claim as stated): two different messages of one tenant to one
\* assistant never share a cache entry, so a call answered from the cache
\* is answered from an entry that served calls of its own message only.
C30_MessagesHaveOwnEntries ==
    \A q \in Queries :
        IsHit(q) =>
            \A tr \in DOMAIN lastOk :
                (/\ tr[1] = req[q].tenant.id
                 /\ tr[2] = req[q].assistant.id
                 /\ lastOk[tr].key = RequestCacheKey(req[q]))
                => tr[3] = req[q].message

\* ---------------------------------------------------- VectorStoreService

Slugs == { t.slug : t \in Tenants }

\* Chunks as to_vector_documents hands them over: id, content, document_type.
DocPool ==
    { [id |-> "d1_chunk_0", content |-> "alpha", document_type |-> "rubric"],
      [id |-> "d1_chunk_1", content |-> "beta", document_type |-> "example"],
      [id |-> "d2_chunk_0", content |-> "gamma", document_type |-> "rubric"],
      [id |-> "d1_chunk_0", content |-> "omega", document_type |-> "example"] }

DistinctIds(docs) ==
    \A i, j \in 1..Len(docs) : docs[i].id = docs[j].id => i = j

\* The document lists of one upsert_documents call.
DocLists ==
    { docs \in UNION { Arrangements(DocPool, n) : n \in 0..MaxDocs } : DistinctIds(docs) }

TopKs == {1, DefaultTopK}

Filters ==
    { PyNone,
      PyDict("document_type", PyStr("rubric")),
      PyDict("tenant_slug", PyStr("beta")) }

\* index.upsert(vectors = the first n of docs, namespace)
ApplyUpsert(idx, namespace, tenant_slug, docs, n) ==
    LET new == { <<namespace, docs[i].id>> : i \in 1..n }
    IN  [k \in DOMAIN idx \cup new |->
            IF k \in new
            THEN VectorMetadata(docs[CHOOSE i \in 1..n : docs[i].id = k[2]], tenant_slug)
            ELSE idx[k]]

\* The number of index.upsert calls of one upsert_documents call.
UpsertBatches(docs) == (Len(docs) + UpsertBatchSize - 1) \div UpsertBatchSize

\* What the last call on the vector store gave its caller.
Outcome(op, tenant_slug, error, returned, items) ==
    [op |-> op, tenant_slug |-> tenant_slug, error |-> error,
     returned |-> returned, results |-> items]

\* search, "Convert to SearchResult objects".
SearchResults(idx, namespace, ranking) ==
    [i \in 1..Len(ranking) |->
        [id |-> ranking[i],
         content |-> idx[<<namespace, ranking[i]>>].content,
         metadata |-> idx[<<namespace, ranking[i]>>]]]

VectorInit ==
    /\ Quiescent
    /\ index = <<>>
    /\ pinecone = LoadedIndex

\* upsert_documents, every batch written.
UpsertDocuments(tenant_slug, docs) ==
    /\ index' = ApplyUpsert(index, GetNamespace(tenant_slug), tenant_slug, docs, Len(docs))
    /\ vsOut' = Outcome("upsert", tenant_slug, "", Len(docs), <<>>)
    /\ UNCHANGED <<qvars, bvars, evars>>

\* upsert_documents, embed_texts raises: nothing is written.
UpsertDocumentsEmbedRaises(tenant_slug, docs) ==
    /\ docs # <<>>
    /\ vsOut' = Outcome("upsert", tenant_slug, "embed", 0, <<>>)
    /\ UNCHANGED <<index, qvars, bvars, evars>>

\* upsert_documents, index.upsert raises in batch b: the batches before it stay.
UpsertDocumentsBatchRaises(tenant_slug, docs, b) ==
    /\ b \in 0..(UpsertBatches(docs) - 1)
    /\ index' = ApplyUpsert(index, GetNamespace(tenant_slug), tenant_slug, docs,
                            b * UpsertBatchSize)
    /\ vsOut' = Outcome("upsert", tenant_slug, "index_upsert", 0, <<>>)
    /\ UNCHANGED <<qvars, bvars, evars>>

\* search
Search(tenant_slug, top_k, filter) ==
    /\ \E ranking \in QueryMatches(index, GetNamespace(tenant_slug), top_k, filter) :
           vsOut' = Outcome("search", tenant_slug, "", top_k,
                            SearchResults(index, GetNamespace(tenant_slug), ranking))
    /\ UNCHANGED <<index, qvars, bvars, evars>>

\* search, embed_text or index.query raises.
SearchRaises(tenant_slug, call) ==
    /\ call \in {"embed", "index_query"}
    /\ vsOut' = Outcome("search", tenant_slug, call, 0, <<>>)
    /\ UNCHANGED <<index, qvars, bvars, evars>>

\* delete_documents
DeleteDocuments(tenant_slug, document_ids) ==
    /\ index' = [k \in { kk \in DOMAIN index :
                           ~(kk[1] = GetNamespace(tenant_slug) /\ kk[2] \in document_ids) }
                    |-> index[k]]
    /\ vsOut' = Outcome("delete", tenant_slug, "", Cardinality(document_ids), <<>>)
    /\ UNCHANGED <<qvars, bvars, evars>>

\* delete_tenant_data
DeleteTenantData(tenant_slug) ==
    /\ index' = [k \in { kk \in DOMAIN index : kk[1] # GetNamespace(tenant_slug) }
                    |-> index[k]]
    /\ vsOut' = Outcome("delete_all", tenant_slug, "", 1, <<>>)
    /\ UNCHANGED <<qvars, bvars, evars>>

VectorNext ==
    \/ \E t \in Slugs, docs \in DocLists : UpsertDocuments(t, docs)
    \/ \E t \in Slugs, docs \in DocLists : UpsertDocumentsEmbedRaises(t, docs)
    \/ \E t \in Slugs, docs \in DocLists, b \in 0..MaxDocs :
           UpsertDocumentsBatchRaises(t, docs, b)
    \/ \E t \in Slugs, k \in TopKs, f \in Filters : Search(t, k, f)
    \/ \E t \in Slugs, c \in {"embed", "index_query"} : SearchRaises(t, c)
    \/ \E t \in Slugs, ids \in SUBSET { d.id : d \in DocPool } : DeleteDocuments(t, ids)
    \/ \E t \in Slugs : DeleteTenantData(t)

SpecVector == VectorInit /\ [][VectorNext]_vars

\* C2: every item a search for tenant T returns is one upsert_documents
\* stored for T and is held under T's namespace, whatever the filter and
\* top_k; no item stored for another tenant is in the output.
C2_SearchStaysInTenant ==
    (vsOut.op = "search" /\ vsOut.error = "") =>
        /\ Len(vsOut.results) <= vsOut.returned
        /\ \A i \in 1..Len(vsOut.results) :
               /\ vsOut.results[i].metadata.tenant_slug = vsOut.tenant_slug
               /\ <<GetNamespace(vsOut.tenant_slug), vsOut.results[i].id>> \in DOMAIN index
               /\ index[<<GetNamespace(vsOut.tenant_slug), vsOut.results[i].id>>]
                      = vsOut.results[i].metadata

\* C2 witness: a search returned fewer items than top_k while the index held
\* items of another tenant.
C2_Witness ==
    /\ vsOut.op = "search"
    /\ vsOut.error = ""
    /\ Len(vsOut.results) >= 1
    /\ Len(vsOut.results) < vsOut.returned
    /\ \E k \in DOMAIN index : k[1] # GetNamespace(vsOut.tenant_slug)

\* ------------------------------------------------------------ batch_query

\* QueryRequest as the endpoint receives it ("" stands for an absent field).
ApiRequest(assistant_id, assistant_slug, message) ==
    [assistant_id |-> assistant_id, assistant_slug |-> assistant_slug,
     message |-> message]

ApiRequests ==
    { ApiRequest("", "", PyStr("Hello")),
      ApiRequest("", "eval", PyStr("Hello")),
      ApiRequest("A3", "", PyStr("7")) }

RECURSIVE ListsUpTo(_, _)
ListsUpTo(S, n) ==
    IF n = 0 THEN {<<>>}
    ELSE ListsUpTo(S, n - 1)
         \cup { Append(l, x) : l \in { ll \in ListsUpTo(S, n - 1) : Len(ll) = n - 1 },
                               x \in S }

\* One request list longer than the endpoint takes.
TooManyRequests ==
    [i \in 1..(MaxBatchRequests + 1) |-> ApiRequest("", "", PyStr("Hello"))]

BatchInputs == ListsUpTo(ApiRequests, MaxBatch) \cup {TooManyRequests}

\* get_assistant_for_request: the assistant, none, or the 404 it raises.
GetAssistantForRequest(request, tenant) ==
    LET byId == { a \in Assistants : /\ a.id = request.assistant_id
                                     /\ a.tenant_id = tenant.id
                                     /\ a.is_active }
        bySlug == { a \in Assistants : /\ a.slug = request.assistant_slug
                                       /\ a.tenant_id = tenant.id
                                       /\ a.is_active }
    IN  IF request.assistant_id # ""
        THEN IF byId = {}
             THEN [found |-> FALSE, assistant |-> NoAssistant,
                   detail |-> "404: Assistant with ID '" \o request.assistant_id
                              \o "' not found or inactive"]
             ELSE [found |-> TRUE, assistant |-> CHOOSE a \in byId : TRUE, detail |-> ""]
        ELSE IF request.assistant_slug # ""
        THEN IF bySlug = {}
             THEN [found |-> FALSE, assistant |-> NoAssistant,
                   detail |-> "404: Assistant with slug '" \o request.assistant_slug
                              \o "' not found or inactive"]
             ELSE [found |-> TRUE, assistant |-> CHOOSE a \in bySlug : TRUE, detail |-> ""]
        ELSE [found |-> TRUE, assistant |-> NoAssistant, detail |-> ""]

\* The body batch_query returns.
BatchResponse(requests, entries) ==
    [total |-> Len(requests),
     successful |-> Cardinality({ i \in 1..Len(entries) : entries[i].status = "success" }),
     failed |-> Cardinality({ i \in 1..Len(entries) : entries[i].status = "error" }),
     results |-> entries]

\* The coroutine slot the endpoint's calls of RAGService.query run in.
BatchSlot == SeqClient

\* batch_query, "if len(requests) > 10": HTTP 400.
BatchReject(tenant, requests) ==
    /\ bpc \in {"off", "returned", "rejected"}
    /\ nextId <= MaxCalls
    /\ Len(requests) > MaxBatchRequests
    /\ batch' = [tenant |-> tenant, requests |-> requests]
    /\ bi' = 0
    /\ results' = <<>>
    /\ bpc' = "rejected"
    /\ UNCHANGED <<qvars, index, vsOut, evars>>

\* batch_query, results = [] and the loop is entered.
BatchAccept(tenant, requests) ==
    /\ bpc \in {"off", "returned", "rejected"}
    /\ nextId <= MaxCalls
    /\ Len(requests) <= MaxBatchRequests
    /\ batch' = [tenant |-> tenant, requests |-> requests]
    /\ bi' = 0
    /\ results' = <<>>
    /\ bpc' = "loop"
    /\ UNCHANGED <<qvars, index, vsOut, evars>>

\* BatchCallQuery that starts the next sub-query as well, without awaiting
\* the first (as asyncio.gather over the list would).
BatchCallQueryEager ==
    /\ bpc = "loop"
    /\ bi < Len(batch.requests)
    /\ LET request == batch.requests[bi + 1]
           got == GetAssistantForRequest(request, batch.tenant)
           other == CHOOSE q \in Queries : q # BatchSlot
           more == bi + 1 < Len(batch.requests)
       IN  /\ got.found
           /\ pc' = [q \in Queries |->
                        IF q = BatchSlot \/ more THEN "cache_lookup" ELSE pc[q]]
           /\ req' = [q \in Queries |->
                         IF q = BatchSlot
                         THEN MkRequest(batch.tenant, got.assistant, request.message)
                         ELSE IF more
                         THEN MkRequest(batch.tenant, NoAssistant,
                                        batch.requests[bi + 2].message)
                         ELSE req[q]]
           /\ loc' = [q \in Queries |->
                         IF q = BatchSlot
                         THEN [IdleLocals EXCEPT !.query_id = Uuid4(nextId)]
                         ELSE IF more
                         THEN [IdleLocals EXCEPT !.query_id = Uuid4(nextId + 1)]
                         ELSE loc[q]]
           /\ nextId' = IF more THEN nextId + 2 ELSE nextId + 1
    /\ calls' = [q \in Queries |-> <<>>]
    /\ bpc' = "query"
    /\ UNCHANGED <<cache, index, written, lastOk, batch, bi, results, vsOut, evars>>

\* The loop body up to the call of rag_service.query.
BatchCallQuery ==
    /\ bpc = "loop"
    /\ bi < Len(batch.requests)
    /\ LET request == batch.requests[bi + 1]
           got == GetAssistantForRequest(request, batch.tenant)
       IN  /\ got.found
           /\ StartCall(BatchSlot, MkRequest(batch.tenant, got.assistant, request.message))
    /\ bpc' = "query"
    /\ UNCHANGED <<batch, bi, results, vsOut, evars>>

\* get_assistant_for_request raises: "except Exception as e".
BatchAssistantNotFound ==
    /\ bpc = "loop"
    /\ bi < Len(batch.requests)
    /\ LET got == GetAssistantForRequest(batch.requests[bi + 1], batch.tenant)
       IN  /\ ~got.found
           /\ results' = Append(results,
                                [index |-> bi, status |-> "error", error |-> got.detail])
    /\ bi' = bi + 1
    /\ UNCHANGED <<qvars, index, batch, bpc, vsOut, evars>>

\* rag_service.query returned: the "success" entry.
BatchCollectSuccess ==
    /\ bpc = "query"
    /\ pc[BatchSlot] = "done"
    /\ results' = Append(results, [index |-> bi, status |-> "success",
                                   result |-> loc[BatchSlot].result])
    /\ bi' = bi + 1
    /\ bpc' = "loop"
    /\ ReturnCall(BatchSlot)
    /\ UNCHANGED <<batch, vsOut, evars>>

\* BatchCollectError that gives up the rest of the list.
BatchCollectErrorAborts ==
    /\ bpc = "query"
    /\ pc[BatchSlot] = "failed"
    /\ results' = Append(results, [index |-> bi, status |-> "error",
                                   error |-> loc[BatchSlot].error])
    /\ bi' = bi + 1
    /\ bpc' = "returned"
    /\ ReturnCall(BatchSlot)
    /\ UNCHANGED <<batch, vsOut, evars>>

\* rag_service.query raised: "except Exception as e", the "error" entry.
BatchCollectError ==
    /\ bpc = "query"
    /\ pc[BatchSlot] = "failed"
    /\ results' = Append(results, [index |-> bi, status |-> "error",
                                   error |-> loc[BatchSlot].error])
    /\ bi' = bi + 1
    /\ bpc' = "loop"
    /\ ReturnCall(BatchSlot)
    /\ UNCHANGED <<batch, vsOut, evars>>

\* The loop is over: the response is returned.
BatchReturn ==
    /\ bpc = "loop"
    /\ bi = Len(batch.requests)
    /\ bpc' = "returned"
    /\ UNCHANGED <<qvars, index, batch, bi, results, vsOut, evars>>

BatchNext ==
    \/ \E t \in Tenants, l \in BatchInputs : BatchReject(t, l)
    \/ \E t \in Tenants, l \in BatchInputs : BatchAccept(t, l)
    \/ BatchCallQuery
    \/ BatchAssistantNotFound
    \/ BatchCollectSuccess
    \/ BatchCollectError
    \/ BatchReturn
    \/ GetCachedResult(BatchSlot)
    \/ GetCachedResultRaises(BatchSlot)
    \/ EmbedQuery(BatchSlot)
    \/ EmbedQueryRaises(BatchSlot)
    \/ SearchIndex(BatchSlot)
    \/ SearchIndexRaises(BatchSlot)
    \/ Complete(BatchSlot)
    \/ CompleteRaises(BatchSlot)
    \/ CacheResult(BatchSlot)
    \/ CacheResultRaises(BatchSlot)
    \/ \E key \in DOMAIN cache : Expire(key)

SpecBatch == QueryInit /\ [][BatchNext]_vars

\* C10: while the loop runs there is one entry for each request gone
\* through, and the returned response holds one entry per request, in
\* request order: "error" with the error text where the assistant lookup or
\* the query raised, "success" with the query's result otherwise.
C10_BatchIsolatesFailures ==
    /\ bpc \in {"loop", "query"} => Len(results) = bi
    /\ bpc = "returned" =>
        /\ Len(results) = Len(batch.requests)
        /\ BatchResponse(batch.requests, results).total
               = BatchResponse(batch.requests, results).successful
                 + BatchResponse(batch.requests, results).failed
        /\ \A i \in 1..Len(results) :
               LET got == GetAssistantForRequest(batch.requests[i], batch.tenant)
               IN  /\ results[i].index = i - 1
                   /\ results[i].status \in {"success", "error"}
                   /\ results[i].status = "error" =>
                          /\ results[i].error # ""
                          /\ ~got.found => results[i].error = got.detail
                   /\ results[i].status = "success" =>
                          /\ got.found
                          /\ results[i].result.tenant_id = batch.tenant.id
                          /\ results[i].result.assistant_id
                                 = OptStr(got.assistant # NoAssistant, got.assistant.id)

\* C10 witness: a returned batch in which a failed item is followed by a
\* successful one.
C10_Witness ==
    /\ bpc = "returned"
    /\ \E i, j \in 1..Len(results) :
           /\ i < j
           /\ results[i].status = "error"
           /\ results[i].error \in {"cache_get", "embed", "index_query", "llm", "cache_set"}
           /\ results[j].status = "success"

\* C23: within one batch_query call a call of RAGService.query is in flight
\* only for the sub-query the loop stands at, after an entry was appended for
\* every sub-query before it; between two sub-queries no call is in flight,
\* so at most one sub-query is in flight at any time.
C23_BatchIsSequential ==
    /\ \A q \in Queries : pc[q] # "idle" => (q = BatchSlot /\ bpc = "query")
    /\ bpc = "query" =>
           /\ bi < Len(batch.requests)
           /\ Len(results) = bi
           /\ pc[BatchSlot] # "idle"
           /\ req[BatchSlot].message = batch.requests[bi + 1].message
           /\ req[BatchSlot].assistant
                  = GetAssistantForRequest(batch.requests[bi + 1], batch.tenant).assistant
    /\ bpc = "loop" => \A q \in Queries : calls[q] = <<>>

\* C23 witness: the second sub-query of a batch is in flight and has made
\* remote calls, after the first one failed.
C23_Witness ==
    /\ bpc = "query"
    /\ bi = 1
    /\ Len(batch.requests) = 2
    /\ results[1].status = "error"
    /\ Len(calls[BatchSlot]) >= 2

\* ----------------------------------------------------- pure functions

pvars == <<cache, index, pc, req, loc, calls, nextId, written, lastOk,
           batch, bi, results, bpc, vsOut, documents, ing, nextDoc, produced, inv, pinecone>>

\* A call of a function without side effects, and what it returned; a
\* behaviour of the pure-function specification is one such call.
Called(fn, args, value) == [fn |-> fn, in |-> args, out |-> value]

PureInit ==
    /\ Quiescent
    /\ index = <<>>
    /\ pinecone = LoadedIndex

\* Completion texts: a body, bare or in a fence (closed or cut off before the
\* closing fence), with or without prose around it.
CompletionBodies == { "7", "42", "null", "Hola", "{\"a\": 1}", "{\"a\": 1}}", "{}" }

Wrapped(body, wrap) ==
    CASE wrap = "bare" -> body
      [] wrap = "json" -> FenceJson \o "\n" \o body \o "\n" \o Fence
      [] wrap = "plain" -> Fence \o "\n" \o body \o "\n" \o Fence
      [] wrap = "json_open" -> FenceJson \o " " \o body
      [] wrap = "plain_open" -> Fence \o " " \o body

CompletionTexts ==
    { before \o Wrapped(body, wrap) \o after :
        before \in {"", " ", "Ok: "},
        body \in CompletionBodies,
        wrap \in {"bare", "json", "plain", "json_open", "plain_open"},
        after \in {"", "\n", " fin"} }

\* LLMService.query hands the completion text to _try_parse_json.
CallTryParseJson(raw) ==
    /\ fx = NoCall
    /\ fx' = Called("_try_parse_json", raw, TryParseJson(raw))
    /\ UNCHANGED pvars

\* The content of the first fenced block that opens with opener, trimmed;
\* JsonDecodeError stands for "there is no such block".
FencedBlock(text, opener) ==
    LET open == PyFind(text, opener, 0)
        close == IF open < 0 THEN -1 ELSE PyFind(text, Fence, open + Len(opener))
    IN  IF open >= 0 /\ close >= 0
        THEN PyStr(PyStrip(SubSeq(text, open + Len(opener) + 1, close)))
        ELSE JsonDecodeError

\* The first of the whole text, the json block, the first block that parses.
FirstThatParses(text) ==
    LET whole == JsonLoads(text)
        jblock == FencedBlock(text, FenceJson)
        block == FencedBlock(text, Fence)
        jparsed == IF jblock = JsonDecodeError THEN JsonDecodeError ELSE JsonLoads(jblock.v)
        parsed == IF block = JsonDecodeError THEN JsonDecodeError ELSE JsonLoads(block.v)
    IN  IF whole # JsonDecodeError THEN whole
        ELSE IF jparsed # JsonDecodeError THEN jparsed
        ELSE IF parsed # JsonDecodeError THEN parsed
        ELSE PyStr(text)

\* C19 (the claim as stated): the structured response is the first that
\* parses of the trimmed text, the content of a json fenced block, the
\* content of a fenced block; the trimmed text itself when none parses.
C19_FirstParseWins ==
    fx.fn = "_try_parse_json" => fx.out = FirstThatParses(PyStrip(fx.in))

\* ------------------------------------------- the knowledge-base query

\* s repeated n times.
RECURSIVE Repeat(_, _)
Repeat(s, n) ==
    IF n = 0 THEN ""
    ELSE IF n = 1 THEN s
    ELSE Repeat(s, n \div 2) \o Repeat(s, n - (n \div 2))

\* A text longer than the kb query may be.
LongText == Repeat("0123456789", 60)

Absent == [t |-> "absent", v |-> "absent"]

\* The dict with the given <<key, value>> pairs, those with value Absent left out.
DictOf(pairs) ==
    LET present == { pr \in pairs : pr[2] # Absent }
    IN  PyMap([k \in { pr[1] : pr \in present } |->
                  (CHOOSE pr \in present : pr[1] = k)[2]])

Asks(text) == DictOf({<<"question", PyStr(text)>>})

QuestionLists ==
    { <<>>,
      <<Asks("a")>>,
      <<Asks("a"), Asks("b"), Asks("c"), Asks("d")>>,
      <<PyStr("x"), Asks("a"), DictOf({<<"id", PyInt(1)>>}), Asks("b")>>,
      <<Asks("a"), DictOf({<<"question", PyInt(7)>>})>> }

StructuredMessages ==
    { DictOf({<<"query", a>>, <<"question", b>>, <<"text", c>>, <<"search", d>>,
              <<"other", e>>, <<"questions", f>>}) :
        a \in {Absent, PyStr("q"), PyInt(3), PyStr(LongText)},
        b \in {Absent, PyStr("k")},
        c \in {Absent, PyStr("t"), PyStr("")},
        d \in {Absent, PyStr("s")},
        e \in {Absent, PyStr("zz")},
        f \in {Absent, PyStr("notalist")} \cup { PyList(l) : l \in QuestionLists } }

QueryMessages ==
    StructuredMessages
    \cup { PyStr(""), PyStr("Hello"), PyStr(LongText), PyInt(7), PyNone,
           PyDict("text", PyStr("uno")), PyDict("text", PyInt(1)),
           PyList(<<PyStr("x"), Asks("a"), PyInt(2), PyStr("y")>>) }

SearchQueries == { PyNone, PyStr(""), PyStr("find") }

\* RAGService.query derives kb_query from its arguments.
CallKbQuery(message, search_query) ==
    /\ fx = NoCall
    /\ fx' = Called("kb_query", [message |-> message, search_query |-> search_query],
                    KbQuery([message |-> message, search_query |-> search_query]))
    /\ UNCHANGED pvars

\* The first n characters of s.
FirstChars(s, n) == IF Len(s) <= n THEN s ELSE SubSeq(s, 1, n)

\* The texts joined with one space between neighbours.
RECURSIVE SpaceJoined(_)
SpaceJoined(texts) ==
    IF Len(texts) = 0 THEN ""
    ELSE IF Len(texts) = 1 THEN texts[1]
    ELSE SpaceJoined(SubSeq(texts, 1, Len(texts) - 1)) \o " " \o texts[Len(texts)]

\* The string value of a field of a structured message, as a list of 0 or 1 texts.
FieldText(message, key) ==
    IF key \in DOMAIN Items(message) /\ Items(message)[key].t = "str"
    THEN <<Items(message)[key].v>>
    ELSE <<>>

\* The first three entries of the questions list of a structured message.
FirstQuestions(message) ==
    IF "questions" \in DOMAIN Items(message) /\ Items(message)["questions"].t = "list"
    THEN LET l == Items(message)["questions"].v
         IN  [i \in 1..(IF Len(l) < 3 THEN Len(l) ELSE 3) |-> l[i]]
    ELSE <<>>

\* The question field of an entry, as a list of 0 or 1 values.
QuestionText(entry) ==
    IF IsDict(entry) /\ "question" \in DOMAIN Items(entry)
    THEN <<Items(entry)["question"]>>
    ELSE <<>>

\* The question fields of the first three entries.
RECURSIVE QuestionTexts(_)
QuestionTexts(entries) ==
    IF entries = <<>> THEN <<>>
    ELSE QuestionText(Head(entries)) \o QuestionTexts(Tail(entries))

\* The messages the statement speaks of: strings, scalars and dicts whose
\* question fields are strings.
Extractable(message) ==
    \/ message.t \in {"str", "int", "none"}
    \/ /\ IsDict(message)
       /\ \A i \in 1..Len(QuestionTexts(FirstQuestions(message))) :
              QuestionTexts(FirstQuestions(message))[i].t = "str"

\* The knowledge-base query as the statement gives it.
StatedKbQuery(message) ==
    IF message.t = "str" THEN FirstChars(message.v, SearchTextChars)
    ELSE IF ~IsDict(message) THEN "general query"
    ELSE LET asked == QuestionTexts(FirstQuestions(message))
             texts == FieldText(message, "query") \o FieldText(message, "question")
                      \o FieldText(message, "text") \o FieldText(message, "content")
                      \o FieldText(message, "message") \o FieldText(message, "search")
                      \o [i \in 1..Len(asked) |-> asked[i].v]
         IN  IF SpaceJoined(texts) = "" THEN "general query"
             ELSE FirstChars(SpaceJoined(texts), SearchTextChars)

Embedding(text) == <<"embedding of", text>>

EmbedInputs == ListsUpTo({"a", "b", "c"}, MaxTexts)

\* The bodies the provider may answer embeddings.create(input = texts) with:
\* one item per text, carrying its 0-based index, in any order.
ProviderResponses(texts) ==
    { [k \in 1..Len(texts) |->
          [index |-> order[k] - 1, embedding |-> Embedding(texts[order[k]])]] :
        order \in Arrangements(1..Len(texts), Len(texts)) }

\* sorted(data, key = lambda x: x.index): Python's sort, which is stable.
SortedByIndex(data) ==
    LET before(i) == { j \in 1..Len(data) :
                         \/ data[j].index < data[i].index
                         \/ (data[j].index = data[i].index /\ j < i) }
    IN  [k \in 1..Len(data) |->
            data[CHOOSE i \in 1..Len(data) : Cardinality(before(i)) = k - 1]]

\* EmbedTexts that returns the items in the order the provider sent them.
EmbedTextsUnsorted(texts, data) ==
    IF texts = <<>>
    THEN [vectors |-> <<>>, provider_calls |-> 0]
    ELSE [vectors |-> [k \in 1..Len(data) |-> data[k].embedding],
          provider_calls |-> 1]

\* EmbeddingService.embed_texts, data being the provider's response.data:
\* the list returned and the number of calls of the provider.
EmbedTexts(texts, data) ==
    IF texts = <<>>
    THEN [vectors |-> <<>>, provider_calls |-> 0]
    ELSE [vectors |-> [k \in 1..Len(data) |-> SortedByIndex(data)[k].embedding],
          provider_calls |-> 1]

CallEmbedTexts(texts, data) ==
    /\ fx = NoCall
    /\ fx' = Called("embed_texts", [texts |-> texts, data |-> data],
                    EmbedTexts(texts, data))
    /\ UNCHANGED pvars

\* C17: embed_texts returns one vector per text, the i-th being the one the
\* provider reported for index i whatever the order of the response; it
\* calls the provider once for a non-empty list and not at all for an
\* empty one, for which it returns the empty list.
C17_EmbedTextsKeepsOrder ==
    fx.fn = "embed_texts" =>
        /\ Len(fx.out.vectors) = Len(fx.in.texts)
        /\ \A i \in 1..Len(fx.in.texts) :
               /\ fx.out.vectors[i] = Embedding(fx.in.texts[i])
               /\ \E k \in 1..Len(fx.in.data) :
                      /\ fx.in.data[k].index = i - 1
                      /\ fx.in.data[k].embedding = fx.out.vectors[i]
        /\ fx.out.provider_calls = (IF fx.in.texts = <<>> THEN 0 ELSE 1)

\* C17 witness: the provider answered out of order for different texts.
C17_Witness ==
    /\ fx.fn = "embed_texts"
    /\ Len(fx.in.texts) >= 2
    /\ fx.in.texts[1] # fx.in.texts[2]
    /\ fx.in.data[1].index # 0

\* ------------------------------------------------------ DocumentProcessor

ChunkSize == 1000
ChunkOverlap == 200
\* The separators of the splitter, by priority; after them comes "", which
\* cuts between any two characters.
Separators == <<"\n\n", "\n", ". ", " ">>
\* extract_text_from_obj keeps the strings longer than this.
ShortStringChars == 10

\* not text.strip()
IsBlank(text) == \A i \in 1..Len(text) : SubSeq(text, i, i) \in Whitespace

\* The 0-based positions at which sep occurs in text.
Occurrences(text, sep) ==
    { i \in 0..(Len(text) - Len(sep)) : SubSeq(text, i + 1, i + Len(sep)) = sep }

\* The place in Separators of the first one that occurs in text, 0 if none.
TopSeparator(text) ==
    LET present == { k \in 1..Len(Separators) :
                       Occurrences(text, Separators[k]) # {} }
    IN  IF present = {} THEN 0
        ELSE CHOOSE k \in present : \A j \in present : k <= j

\* The chunks of a text cut between characters: each takes up to ChunkSize
\* characters and the next starts ChunkOverlap characters before its end.
RECURSIVE Windows(_, _)
Windows(text, start) ==
    IF Len(text) - start <= ChunkSize
    THEN <<PySlice(text, start, Len(text))>>
    ELSE <<PySlice(text, start, start + ChunkSize)>>
             \o Windows(text, start + ChunkSize - ChunkOverlap)

\* The stripped, non-empty pieces of text between the occurrences of sep
\* at the positions cuts.
CutAt(text, cuts, sep) ==
    LET m == Cardinality(cuts)
        cut(k) == CHOOSE c \in cuts : Cardinality({ d \in cuts : d < c }) = k - 1
        from(k) == IF k = 1 THEN 0 ELSE cut(k - 1) + Len(sep)
        to(k) == IF k = m + 1 THEN Len(text) ELSE cut(k)
        pieces == [k \in 1..(m + 1) |-> PyStrip(PySlice(text, from(k), to(k)))]
    IN  SelectSeq(pieces, LAMBDA p : p # "")

\* The concatenations of one list out of each set of lists.
RECURSIVE Concats(_)
Concats(choices) ==
    IF choices = <<>> THEN {<<>>}
    ELSE { a \o b : a \in choices[1], b \in Concats(Tail(choices)) }

\* text_splitter.split_text(text): the lists of chunks the splitter may
\* return. It cuts the text at occurrences of the first separator that
\* occurs in it, which of them depending on how the pieces add up; a piece
\* that is still longer than ChunkSize is split in turn with the separators
\* that follow. No chunk is longer than ChunkSize.
RECURSIVE SplitText(_)
SplitText(text) ==
    IF TopSeparator(text) = 0 THEN {Windows(text, 0)}
    ELSE LET sep == Separators[TopSeparator(text)]
             done(pieces) ==
                 \A i \in 1..Len(pieces) :
                     Len(pieces[i]) > ChunkSize =>
                         Occurrences(pieces[i], sep) = {}
             split(pieces) ==
                 Concats([i \in 1..Len(pieces) |->
                             IF Len(pieces[i]) <= ChunkSize
                             THEN {<<pieces[i]>>}
                             ELSE SplitText(pieces[i])])
         IN  UNION { split(pieces) :
                       pieces \in { p \in { CutAt(text, cuts, sep) :
                                              cuts \in SUBSET Occurrences(text, sep) } :
                                      done(p) } }

\* The id of a chunk that leaves the document out.
ChunkIdUnscoped(document_id, i) == "chunk_" \o ToString(i)

\* f"{document_id}_chunk_{i}"
ChunkId(document_id, i) == document_id \o "_chunk_" \o ToString(i)

\* The id of a chunk of a page that leaves the page number out.
PageChunkIdNoPage(document_id, page_number, i) == ChunkId(document_id, i)

PageChunkId(document_id, page_number, i) ==
    document_id \o "_page" \o ToString(page_number) \o "_chunk_" \o ToString(i)

\* chunk.metadata["total_chunks"] = len(all_chunks), for every chunk
WithTotalChunks(all_chunks) ==
    [i \in 1..Len(all_chunks) |->
        [all_chunks[i] EXCEPT
            !.metadata = [total_chunks |-> Len(all_chunks)] @@ @]]

\* process_text that makes one chunk of the whole text.
ProcessTextUnsplit(text, document_id, metadata) ==
    IF IsBlank(text) THEN {<<>>}
    ELSE { <<[id |-> ChunkId(document_id, 0),
              content |-> text,
              metadata |-> [document_id |-> document_id, chunk_index |-> 0,
                            total_chunks |-> 1] @@ metadata]>> }

\* DocumentProcessor.process_text: the lists of chunks it may return.
ProcessText(text, document_id, metadata) ==
    IF IsBlank(text) THEN {<<>>}
    ELSE { [i \in 1..Len(chunks) |->
               [id |-> ChunkId(document_id, i - 1),
                content |-> chunks[i],
                metadata |-> [document_id |-> document_id,
                              chunk_index |-> i - 1,
                              total_chunks |-> Len(chunks)] @@ metadata]] :
             chunks \in SplitText(text) }

\* The loop of process_pdf over reader.pages from page_num on, pages being
\* the texts page.extract_text() gives.
RECURSIVE PdfChunks(_, _, _, _, _)
PdfChunks(pages, page_num, document_id, metadata, all_chunks) ==
    IF page_num >= Len(pages) THEN {all_chunks}
    ELSE IF IsBlank(pages[page_num + 1])
    THEN PdfChunks(pages, page_num + 1, document_id, metadata, all_chunks)
    ELSE LET page_metadata == [page_number |-> page_num + 1,
                               total_pages |-> Len(pages)] @@ metadata
             added(chunks) ==
                 [i \in 1..Len(chunks) |->
                     [id |-> PageChunkId(document_id, page_num + 1, i - 1),
                      content |-> chunks[i],
                      metadata |-> [document_id |-> document_id,
                                    chunk_index |-> Len(all_chunks) + i - 1]
                                       @@ page_metadata]]
         IN  UNION { PdfChunks(pages, page_num + 1, document_id, metadata,
                               all_chunks \o added(chunks)) :
                       chunks \in SplitText(pages[page_num + 1]) }

\* ProcessPdf that counts total_chunks page by page.
ProcessPdfPageTotals(pages, document_id, metadata) ==
    { [i \in 1..Len(all_chunks) |->
          [all_chunks[i] EXCEPT
              !.metadata =
                  [total_chunks |->
                      Cardinality({ j \in 1..Len(all_chunks) :
                                      all_chunks[j].metadata.page_number
                                          = all_chunks[i].metadata.page_number })]
                      @@ @]] :
        all_chunks \in PdfChunks(pages, 0, document_id, metadata, <<>>) }

\* DocumentProcessor.process_pdf
ProcessPdf(pages, document_id, metadata) ==
    { WithTotalChunks(all_chunks) :
        all_chunks \in PdfChunks(pages, 0, document_id, metadata, <<>>) }

\* A JSON object as json.loads gives it: the <<key, value>> pairs in order.
JsonObject(pairs) == [t |-> "object", v |-> pairs]

\* extract_text_from_obj of process_json
RECURSIVE ExtractTextFromObj(_, _)
RECURSIVE ExtractTextFromPairs(_, _)
RECURSIVE ExtractTextFromItems(_, _, _)
ExtractTextFromObj(obj, prefix) ==
    IF obj.t = "object" THEN ExtractTextFromPairs(obj.v, prefix)
    ELSE IF obj.t = "list" THEN ExtractTextFromItems(obj.v, prefix, 0)
    ELSE <<>>

ExtractTextFromPairs(pairs, prefix) ==
    IF pairs = <<>> THEN <<>>
    ELSE LET key == pairs[1][1]
             value == pairs[1][2]
             new_prefix == IF prefix # "" THEN prefix \o "." \o key ELSE key
             texts == IF value.t = "str" /\ Len(value.v) > ShortStringChars
                      THEN <<new_prefix \o ": " \o value.v>>
                      ELSE IF value.t \in {"object", "list"}
                      THEN ExtractTextFromObj(value, new_prefix)
                      ELSE <<>>
         IN  texts \o ExtractTextFromPairs(Tail(pairs), prefix)

ExtractTextFromItems(items, prefix, i) ==
    IF items = <<>> THEN <<>>
    ELSE ExtractTextFromObj(items[1], prefix \o "[" \o ToString(i) \o "]")
             \o ExtractTextFromItems(Tail(items), prefix, i + 1)

\* The loop of process_json over the items of an array from idx on.
RECURSIVE JsonItemChunks(_, _, _, _, _)
JsonItemChunks(data, idx, document_id, metadata, all_chunks) ==
    IF idx >= Len(data) THEN {all_chunks}
    ELSE LET item_texts == ExtractTextFromObj(data[idx + 1], "")
             renumbered(chunks) ==
                 [i \in 1..Len(chunks) |->
                     [chunks[i] EXCEPT
                         !.id = ChunkId(document_id, Len(all_chunks) + i - 1)]]
         IN  IF item_texts = <<>>
             THEN JsonItemChunks(data, idx + 1, document_id, metadata, all_chunks)
             ELSE UNION { JsonItemChunks(data, idx + 1, document_id, metadata,
                                         all_chunks \o renumbered(chunks)) :
                            chunks \in ProcessText(
                                PyJoin("\n", item_texts),
                                document_id \o "_item" \o ToString(idx),
                                [json_index |-> idx] @@ metadata) }

\* DocumentProcessor.process_json, data being json.loads of the content.
ProcessJson(data, document_id, metadata) ==
    IF data.t = "list"
    THEN { WithTotalChunks(all_chunks) :
             all_chunks \in JsonItemChunks(data.v, 0, document_id, metadata, <<>>) }
    ELSE ProcessText(PyJoin("\n", ExtractTextFromObj(data, "")),
                     document_id, metadata)

\* The metadata the router attaches to the chunks of a document.
BaseMetadata == [title |-> "Manual", document_type |-> "rubric"]

DocumentIds == {"doc", "d2"}

Solid == Repeat("0123456789", 250)
Letters == Repeat("abcdefghij", 250)
Spaces == Repeat("  \n  ", 500)
FourParagraphs ==
    PyJoin("\n\n", <<PySlice(Solid, 0, 623), PySlice(Letters, 0, 623),
                     PySlice(Solid, 0, 624), PySlice(Letters, 0, 624)>>)

PlainTexts ==
    { "", "   ", "Hola mundo", "Uno. Dos. Tres.", PySlice(Solid, 0, 1000),
      PySlice(Solid, 0, 1001), Solid, Letters, Spaces, FourParagraphs }

PageTexts == { "", "Hola mundo", "uno dos", PySlice(Solid, 0, 1001) }

PdfDocuments == ListsUpTo(PageTexts, MaxPages)

JsonRecords ==
    { JsonObject(<<<<"title", PyStr("Manual de ventas")>>, <<"id", PyInt(7)>>>>),
      JsonObject(<<<<"title", PyStr("corto")>>>>),
      JsonObject(<<<<"body", PyStr(PySlice(Solid, 0, 1100))>>,
                   <<"tags", PyList(<<PyStr("x"), PyStr("etiqueta larga")>>)>>>>) }

JsonDocuments ==
    JsonRecords \cup { PyList(records) : records \in ListsUpTo(JsonRecords, MaxRecords) }
        \cup { PyStr("solo una cadena larga"), PyInt(7) }

CallProcessText(text, document_id) ==
    /\ fx = NoCall
    /\ \E chunks \in ProcessText(text, document_id, BaseMetadata) :
           fx' = Called("process_text",
                        [text |-> text, document_id |-> document_id], chunks)
    /\ UNCHANGED pvars

CallProcessPdf(pages, document_id) ==
    /\ fx = NoCall
    /\ \E chunks \in ProcessPdf(pages, document_id, BaseMetadata) :
           fx' = Called("process_pdf",
                        [pages |-> pages, document_id |-> document_id], chunks)
    /\ UNCHANGED pvars

CallProcessJson(data, document_id) ==
    /\ fx = NoCall
    /\ \E chunks \in ProcessJson(data, document_id, BaseMetadata) :
           fx' = Called("process_json",
                        [data |-> data, document_id |-> document_id], chunks)
    /\ UNCHANGED pvars

ChunkerCalls == {"process_text", "process_pdf", "process_json"}

\* C14: whatever the input (plain text, the pages of a PDF, a JSON object,
\* a JSON array of records), the ids of the chunks the chunker returns for
\* one document are pairwise distinct.
C14_ChunkIdsAreDistinct ==
    fx.fn \in ChunkerCalls =>
        \A i, j \in 1..Len(fx.out) :
            i # j => fx.out[i].id # fx.out[j].id

\* C14 witness: a PDF two pages of which gave chunks.
C14_Witness ==
    /\ fx.fn = "process_pdf"
    /\ Len(fx.out) >= 2
    /\ fx.out[1].metadata.page_number # fx.out[Len(fx.out)].metadata.page_number

StatedChunkIds == <<"doc_chunk_0", "doc_chunk_1", "doc_chunk_2">>

ThreeChunks(chunks) ==
    /\ Len(chunks) = 3
    /\ \A i \in 1..3 :
           /\ chunks[i].id = StatedChunkIds[i]
           /\ chunks[i].metadata.total_chunks = 3

IsStatedDocument ==
    /\ fx.fn = "process_text"
    /\ fx.in.document_id = "doc"
    /\ Len(fx.in.text) = 2500

PageContents(chunks, page_number) ==
    LET own == SelectSeq(chunks, LAMBDA c : c.metadata.page_number = page_number)
    IN  [i \in 1..Len(own) |-> own[i].content]

\* C26: the chunks process_pdf returns are, page after page, what the
\* splitter gives for the text of that page alone; a page whose text is
\* empty or whitespace has no chunk; chunk_index runs 0..n-1 in list order
\* over all pages and every total_chunks is n, the length of the list.
C26_PdfPagesAreRenumbered ==
    fx.fn = "process_pdf" =>
        LET pages == fx.in.pages
            chunks == fx.out
        IN  /\ \A k \in 1..Len(chunks) :
                   /\ chunks[k].metadata.chunk_index = k - 1
                   /\ chunks[k].metadata.total_chunks = Len(chunks)
                   /\ chunks[k].metadata.page_number \in 1..Len(pages)
                   /\ k > 1 => chunks[k - 1].metadata.page_number
                                   <= chunks[k].metadata.page_number
            /\ \A p \in 1..Len(pages) :
                   IF IsBlank(pages[p]) THEN PageContents(chunks, p) = <<>>
                   ELSE PageContents(chunks, p) \in SplitText(pages[p])

\* C26 witness: a PDF whose first page is blank and whose second page gave
\* two chunks.
C26_Witness ==
    /\ fx.fn = "process_pdf"
    /\ Len(fx.in.pages) = 2
    /\ IsBlank(fx.in.pages[1])
    /\ Len(fx.out) = 2
    /\ fx.out[2].metadata.page_number = 2
    /\ fx.out[2].metadata.chunk_index = 1

\* C27 (the claim as stated): in every chunk list process_text,
\* process_pdf or process_json returns for a document id, the k-th chunk
\* (0-based) has chunk_index k, total_chunks the length of the list and
\* document_id that id.
C27_ChunkMetadata ==
    fx.fn \in ChunkerCalls =>
        \A k \in 1..Len(fx.out) :
            /\ fx.out[k].metadata.chunk_index = k - 1
            /\ fx.out[k].metadata.total_chunks = Len(fx.out)
            /\ fx.out[k].metadata.document_id = fx.in.document_id

\* ------------------------------------------- specification of the functions

PureNext ==
    \/ \E raw \in CompletionTexts : CallTryParseJson(raw)
    \/ \E message \in QueryMessages, search_query \in SearchQueries :
           CallKbQuery(message, search_query)
    \/ \E texts \in EmbedInputs :
           \E data \in ProviderResponses(texts) : CallEmbedTexts(texts, data)
    \/ \E text \in PlainTexts, document_id \in DocumentIds :
           CallProcessText(text, document_id)
    \/ \E pages \in PdfDocuments, document_id \in DocumentIds :
           CallProcessPdf(pages, document_id)
    \/ \E data \in JsonDocuments, document_id \in DocumentIds :
           CallProcessJson(data, document_id)

SpecPure == PureInit /\ [][PureNext]_vars

\* ------------------------------------- CacheService.invalidate_tenant_cache

TenantIds == { tn.id : tn \in Tenants }

\* The pattern that matches every key under the prefix, whatever the tenant.
InvalidatePatternAnyTenant(tenant_id) == CachePrefix \o ":*"

\* pattern = f"{self.prefix}:{tenant_id}:*"
InvalidatePattern(tenant_id) == CachePrefix \o ":" \o tenant_id \o ":*"

\* Redis MATCH for a pattern whose only wildcard is its final "*".
MatchesPattern(key, pattern) ==
    PySlice(key, 0, Len(pattern) - 1) = PySlice(pattern, 0, -1)

\* f with the keys of gone removed.
WithoutAll(f, gone) == [x \in (DOMAIN f) \ gone |-> f[x]]

\* No call of RAGService.query is running.
NoQueryRuns == \A q \in Queries : pc[q] = "idle"

\* invalidate_tenant_cache(tenant_id) is entered: deleted = 0, cursor = 0.
\* Redis walks its table in as many SCAN calls as it has buckets to visit.
InvalidateStart(tenant_id, buckets) ==
    /\ inv.pc = "idle"
    /\ NoQueryRuns
    /\ inv' = [pc |-> "scan", tenant_id |-> tenant_id,
               pattern |-> InvalidatePattern(tenant_id),
               cursor |-> buckets, unvisited |-> DOMAIN cache, keys |-> {},
               scans |-> 0, deleted |-> 0, before |-> cache]
    /\ UNCHANGED <<cache, index, pc, req, loc, calls, nextId, written, lastOk,
                   bvars, vsOut, documents, ing, nextDoc, produced, fx, pinecone>>

\* cursor, keys = await redis.scan(cursor, match = pattern, count = 100):
\* Redis visits some of the keys it has not visited (all of them with the
\* call that ends the walk) and returns those that match; cursor stands
\* for the calls the walk still takes, 0 when it is over.
InvalidateScan ==
    /\ inv.pc = "scan"
    /\ \E visited \in SUBSET inv.unvisited :
           /\ inv.cursor = 1 => visited = inv.unvisited
           /\ LET keys == { k \in visited \cap DOMAIN cache :
                              MatchesPattern(k, inv.pattern) }
              IN  inv' = [inv EXCEPT
                             !.cursor = @ - 1,
                             !.unvisited = @ \ visited,
                             !.keys = keys,
                             !.scans = @ + 1,
                             !.pc = IF keys # {} THEN "delete"
                                    ELSE IF inv.cursor = 1 THEN "done"
                                    ELSE "scan"]
    /\ UNCHANGED <<cache, index, pc, req, loc, calls, nextId, written, lastOk,
                   bvars, vsOut, documents, ing, nextDoc, produced, fx, pinecone>>

\* if keys: await redis.delete(*keys); deleted += len(keys)
InvalidateDelete ==
    /\ inv.pc = "delete"
    /\ cache' = WithoutAll(cache, inv.keys)
    /\ written' = WithoutAll(written, inv.keys)
    /\ lastOk' = [tr \in { x \in DOMAIN lastOk : lastOk[x].key \notin inv.keys }
                     |-> lastOk[tr]]
    /\ inv' = [inv EXCEPT
                  !.deleted = @ + Cardinality(inv.keys),
                  !.pc = IF inv.cursor = 0 THEN "done" ELSE "scan"]
    /\ UNCHANGED <<index, pc, req, loc, calls, nextId,
                   bvars, vsOut, documents, ing, nextDoc, produced, fx, pinecone>>

\* return deleted
InvalidateReturn ==
    /\ inv.pc = "done"
    /\ inv' = [pc |-> "idle", returned |-> inv.deleted]
    /\ UNCHANGED <<cache, index, pc, req, loc, calls, nextId, written, lastOk,
                   bvars, vsOut, documents, ing, nextDoc, produced, fx, pinecone>>

\* The caller of RAGService.query, while no invalidation runs.
QuietStartQuery(r) ==
    /\ inv.pc = "idle"
    /\ StartQuery(SeqClient, r)

\* An entry expires, while no invalidation runs.
QuietExpire(key) ==
    /\ inv.pc = "idle"
    /\ Expire(key)

InvalidateStep == InvalidateScan \/ InvalidateDelete

\* One caller that queries and invalidates in turn: nothing else touches
\* the cache while invalidate_tenant_cache runs.
InvalidateNext ==
    \/ \E r \in Requests : QuietStartQuery(r)
    \/ GetCachedResult(SeqClient)
    \/ GetCachedResultRaises(SeqClient)
    \/ EmbedQuery(SeqClient)
    \/ EmbedQueryRaises(SeqClient)
    \/ SearchIndex(SeqClient)
    \/ SearchIndexRaises(SeqClient)
    \/ Complete(SeqClient)
    \/ CompleteRaises(SeqClient)
    \/ CacheResult(SeqClient)
    \/ CacheResultRaises(SeqClient)
    \/ Return(SeqClient)
    \/ \E key \in DOMAIN cache : QuietExpire(key)
    \/ \E tenant_id \in TenantIds, buckets \in 1..MaxBuckets :
           InvalidateStart(tenant_id, buckets)
    \/ InvalidateScan
    \/ InvalidateDelete
    \/ InvalidateReturn

\* Redis answers every SCAN and DEL, so the loop is not left waiting.
SpecInvalidate ==
    QueryInit /\ [][InvalidateNext]_vars /\ WF_vars(InvalidateStep)

\* The keys of a cache that belong to a tenant.
TenantKeys(entries, tenant_id) ==
    { k \in DOMAIN entries :
        PySlice(k, 0, Len(CachePrefix) + Len(tenant_id) + 2)
            = CachePrefix \o ":" \o tenant_id \o ":" }

\* What holds when invalidate_tenant_cache is about to return.
InvalidateDone ==
    inv.pc = "done" =>
        /\ TenantKeys(cache, inv.tenant_id) = {}
        /\ inv.deleted = Cardinality(TenantKeys(inv.before, inv.tenant_id))
        /\ \A k \in (DOMAIN inv.before) \ TenantKeys(inv.before, inv.tenant_id) :
               k \in DOMAIN cache /\ cache[k] = inv.before[k]
        /\ DOMAIN cache \subseteq DOMAIN inv.before
        /\ \A r \in Requests :
               r.tenant.id = inv.tenant_id => RequestCacheKey(r) \notin DOMAIN cache

AllowedExtensions == {"pdf", "docx", "txt", "md", "markdown"}

UpperCase == "ABCDEFGHIJKLMNOPQRSTUVWXYZ"
LowerCase == "abcdefghijklmnopqrstuvwxyz"

\* s.lower()
RECURSIVE PyLower(_)
PyLower(s) ==
    IF s = "" THEN ""
    ELSE LET c == SubSeq(s, 1, 1)
             at == PyFind(UpperCase, c, 0)
         IN  (IF at >= 0 THEN SubSeq(LowerCase, at + 1, at + 1) ELSE c)
                 \o PyLower(SubSeq(s, 2, Len(s)))

\* filename.lower().split(".")[-1]
FileExtension(filename) ==
    LET name == PyLower(filename)
        dots == Occurrences(name, ".")
    IN  IF dots = {} THEN name
        ELSE PySlice(name, (CHOOSE d \in dots : \A e \in dots : d >= e) + 1,
                     Len(name))

\* The bytes of a file, by what they decode to: UTF-8 text, UTF-8 text that
\* is JSON, a PDF with the texts of its pages, a DOCX with its paragraphs,
\* or bytes that are none of these.
Utf8(text) == [kind |-> "utf8", text |-> text]
JsonFile(text, data) == [kind |-> "json", text |-> text, data |-> data]
PdfFile(pages) == [kind |-> "pdf", pages |-> pages]
DocxFile(paragraphs) == [kind |-> "docx", paragraphs |-> paragraphs]
Binary == [kind |-> "binary"]

\* content.decode("utf-8") succeeds
Decodes(content) == content.kind \in {"utf8", "json"}

\* What a call gave: the chunks it returned or the exception it raised.
Returned(chunks) == [ok |-> TRUE, chunks |-> chunks]
Raised(error) == [ok |-> FALSE, error |-> error]

\* DocumentProcessor.process_docx, paragraphs being the texts of doc.paragraphs.
ProcessDocx(paragraphs, document_id, metadata) ==
    LET full_text == PyJoin("\n\n", SelectSeq(paragraphs, LAMBDA p : ~IsBlank(p)))
    IN  IF IsBlank(full_text) THEN {<<>>}
        ELSE ProcessText(full_text, document_id, metadata)

\* DocumentProcessor.process_file: what the call may give.
ProcessFile(content, filename, document_id, metadata) ==
    LET file_metadata == [filename |-> filename] @@ metadata
        extension == FileExtension(filename)
        chunked(lists) == { Returned(chunks) : chunks \in lists }
    IN  IF extension = "pdf"
        THEN IF content.kind = "pdf"
             THEN chunked(ProcessPdf(content.pages, document_id, file_metadata))
             ELSE {Raised("PdfReadError")}
        ELSE IF extension = "docx"
        THEN IF content.kind = "docx"
             THEN chunked(ProcessDocx(content.paragraphs, document_id, file_metadata))
             ELSE {Raised("BadZipFile")}
        ELSE IF extension = "json"
        THEN IF content.kind = "json"
             THEN chunked(ProcessJson(content.data, document_id, file_metadata))
             ELSE IF content.kind = "utf8" THEN {Raised("JSONDecodeError")}
             ELSE {Raised("UnicodeDecodeError")}
        ELSE IF extension \in {"txt", "md", "markdown"}
        THEN IF Decodes(content)
             THEN chunked(ProcessText(content.text, document_id, file_metadata))
             ELSE {Raised("UnicodeDecodeError")}
        ELSE IF Decodes(content)
             THEN chunked(ProcessText(content.text, document_id, file_metadata))
             ELSE {Raised("Unsupported file type: " \o extension)}

\* DocumentProcessor.to_vector_documents; of the metadata the model of the
\* vector store keeps document_type.
ToVectorDocuments(chunks) ==
    [i \in 1..Len(chunks) |->
        [id |-> chunks[i].id, content |-> chunks[i].content,
         document_type |-> chunks[i].metadata.document_type]]

\* The metadata the router hands to the processor.
RouterMetadata == [title |-> "Manual", document_type |-> "rubric", source |-> "web"]

\* The values str(uuid4()) takes for the documents, in the order drawn.
DocumentUuids == <<"doc", "d2">>

\* The texts posted to create_document_from_text.
PostedTexts == { "Hola mundo", "   " }

\* The files posted to upload_document_file.
UploadFiles ==
    { [filename |-> "Guia.PDF", content |-> PdfFile(<<"uno", "", "dos">>)],
      [filename |-> "roto.pdf", content |-> Binary],
      [filename |-> "plan.docx", content |-> DocxFile(<<"Uno", " ", "Dos">>)],
      [filename |-> "notas.txt", content |-> Utf8("Hola")],
      [filename |-> "datos.json",
       content |-> JsonFile("{\"title\": \"Manual de ventas\"}",
                            JsonObject(<<<<"title", PyStr("Manual de ventas")>>>>))],
      [filename |-> "tool.exe", content |-> Binary] }

\* The Document row create_document_from_text and upload_document_file add.
NewDocument(tenant, filename) ==
    [tenant_id |-> tenant.id, filename |-> filename, status |-> "processing",
     chunks_count |-> 0, error_message |-> ""]

\* The locals of a handler of the router, and the number of index.upsert
\* calls its upsert_documents has made.
Handler(op, tenant, document_id, filename, content) ==
    [pc |-> "process", op |-> op, tenant |-> tenant, document_id |-> document_id,
     filename |-> filename, content |-> content, chunks |-> <<>>, error |-> "",
     responses |-> <<>>, batches_sent |-> 0]

NoHandlerRuns == \A u \in Handlers : ing[u].pc = "idle"

\* The record of a document and the history of its vectors, as a handler
\* that creates a document leaves them.
Created(u, op, tenant, filename, content) ==
    LET document_id == DocumentUuids[nextDoc]
    IN  /\ nextDoc <= Len(DocumentUuids)
        /\ documents' = (document_id :> NewDocument(tenant, filename)) @@ documents
        /\ ing' = [ing EXCEPT
                      ![u] = Handler(op, tenant, document_id, filename, content)]
        /\ nextDoc' = nextDoc + 1
        /\ produced' = (document_id :>
                            [tenant_slug |-> tenant.slug, ids |-> {},
                             completed |-> FALSE, deleted |-> FALSE]) @@ produced

\* create_document_from_text up to the first commit: the record exists
\* with status "processing".
CreateDocumentFromText(u, tenant, content) ==
    /\ ing[u].pc = "idle"
    /\ NoQueryRuns
    /\ Created(u, "create_document_from_text", tenant, "", Utf8(content))
    /\ UNCHANGED <<qvars, index, bvars, vsOut, inv, fx, pinecone>>

\* upload_document_file, the extension is not allowed: HTTP 400, and no
\* record is created.
UploadDocumentFileRejected(u, tenant, file) ==
    /\ ing[u].pc = "idle"
    /\ NoQueryRuns
    /\ FileExtension(file.filename) \notin AllowedExtensions
    /\ ing' = [ing EXCEPT
                  ![u] = [Handler("upload_document_file", tenant, "-",
                                  file.filename, file.content) EXCEPT
                             !.pc = "return",
                             !.error = "File type '" \o FileExtension(file.filename)
                                           \o "' not supported",
                             !.responses = <<400>>]]
    /\ UNCHANGED <<qvars, index, bvars, vsOut, documents, nextDoc, produced, inv, fx, pinecone>>

\* upload_document_file up to the first commit.
UploadDocumentFile(u, tenant, file) ==
    /\ ing[u].pc = "idle"
    /\ NoQueryRuns
    /\ FileExtension(file.filename) \in AllowedExtensions
    /\ Created(u, "upload_document_file", tenant, file.filename, file.content)
    /\ UNCHANGED <<qvars, index, bvars, vsOut, inv, fx, pinecone>>

\* What processor.process_text or processor.process_file may give a handler.
Processed(h) ==
    IF h.op = "create_document_from_text"
    THEN { Returned(chunks) :
             chunks \in ProcessText(h.content.text, h.document_id, RouterMetadata) }
    ELSE ProcessFile(h.content, h.filename, h.document_id, RouterMetadata)

\* chunks = processor.process_text(...) or processor.process_file(...)
IngestProcess(u) ==
    /\ ing[u].pc = "process"
    /\ \E outcome \in Processed(ing[u]) :
           /\ outcome.ok
           /\ ing' = [ing EXCEPT ![u].pc = "upsert", ![u].chunks = outcome.chunks]
    /\ UNCHANGED <<qvars, index, bvars, vsOut, documents, nextDoc, produced, inv, fx, pinecone>>

\* The processor raises.
IngestProcessRaises(u) ==
    /\ ing[u].pc = "process"
    /\ \E outcome \in Processed(ing[u]) :
           /\ ~outcome.ok
           /\ ing' = [ing EXCEPT ![u].pc = "except", ![u].error = outcome.error]
    /\ UNCHANGED <<qvars, index, bvars, vsOut, documents, nextDoc, produced, inv, fx, pinecone>>

\* The vectors of the first n chunks of a handler are written.
Upserted(u, n) ==
    LET h == ing[u]
        docs == ToVectorDocuments(h.chunks)
    IN  /\ index' = ApplyUpsert(index, GetNamespace(h.tenant.slug), h.tenant.slug,
                                docs, n)
        /\ produced' = [produced EXCEPT
                           ![h.document_id].ids = @ \cup { docs[i].id : i \in 1..n }]

\* await vector_store.upsert_documents(tenant.slug, vector_docs)
IngestUpsert(u) ==
    /\ ing[u].pc = "upsert"
    /\ Upserted(u, Len(ing[u].chunks))
    /\ ing' = [ing EXCEPT ![u].pc = "commit",
                          ![u].batches_sent = UpsertBatches(ing[u].chunks)]
    /\ UNCHANGED <<qvars, bvars, vsOut, documents, nextDoc, inv, fx, pinecone>>

\* upsert_documents, embed_texts raises: nothing is written.
IngestUpsertEmbedRaises(u) ==
    /\ ing[u].pc = "upsert"
    /\ ing[u].chunks # <<>>
    /\ ing' = [ing EXCEPT ![u].pc = "except", ![u].error = "embed"]
    /\ UNCHANGED <<qvars, index, bvars, vsOut, documents, nextDoc, produced, inv, fx, pinecone>>

\* IngestUpsertBatchRaises in which the failed call undoes the batches
\* written before it.
IngestUpsertBatchRaisesUndone(u, b) ==
    /\ ing[u].pc = "upsert"
    /\ b \in 0..(UpsertBatches(ing[u].chunks) - 1)
    /\ Upserted(u, 0)
    /\ ing' = [ing EXCEPT ![u].pc = "except", ![u].error = "index_upsert",
                          ![u].batches_sent = b + 1]
    /\ UNCHANGED <<qvars, bvars, vsOut, documents, nextDoc, inv, fx, pinecone>>

\* upsert_documents, index.upsert raises in batch b (0-based): the batches
\* before it stay, the ones after it are not sent.
IngestUpsertBatchRaises(u, b) ==
    /\ ing[u].pc = "upsert"
    /\ b \in 0..(UpsertBatches(ing[u].chunks) - 1)
    /\ Upserted(u, b * UpsertBatchSize)
    /\ ing' = [ing EXCEPT ![u].pc = "except", ![u].error = "index_upsert",
                          ![u].batches_sent = b + 1]
    /\ UNCHANGED <<qvars, bvars, vsOut, documents, nextDoc, inv, fx, pinecone>>

\* chunks_count, status = "completed", commit; the response is 201.
IngestComplete(u) ==
    /\ ing[u].pc = "commit"
    /\ documents' = [documents EXCEPT
                        ![ing[u].document_id].chunks_count = Len(ing[u].chunks),
                        ![ing[u].document_id].status = "completed"]
    /\ produced' = [produced EXCEPT ![ing[u].document_id].completed = TRUE]
    /\ ing' = [ing EXCEPT ![u].pc = "return", ![u].responses = Append(@, 201)]
    /\ UNCHANGED <<qvars, index, bvars, vsOut, nextDoc, inv, fx, pinecone>>

\* IngestExcept that answers 500 and leaves the record as it is.
IngestExceptNoRecord(u) ==
    /\ ing[u].pc = "except"
    /\ ing' = [ing EXCEPT ![u].pc = "return", ![u].responses = Append(@, 500)]
    /\ UNCHANGED <<qvars, index, bvars, vsOut, documents, nextDoc, produced, inv, fx, pinecone>>

\* except Exception as e: status = "failed", error_message = str(e), commit;
\* the response is 500.
IngestExcept(u) ==
    /\ ing[u].pc = "except"
    /\ documents' = [documents EXCEPT
                        ![ing[u].document_id].status = "failed",
                        ![ing[u].document_id].error_message = ing[u].error]
    /\ ing' = [ing EXCEPT ![u].pc = "return", ![u].responses = Append(@, 500)]
    /\ UNCHANGED <<qvars, index, bvars, vsOut, nextDoc, produced, inv, fx, pinecone>>

\* select(Document).where(Document.id == document_id,
\*                        Document.tenant_id == tenant.id) finds a row
DocumentFound(tenant, document_id) ==
    IF document_id \in DOMAIN documents
    THEN documents[document_id].tenant_id = tenant.id
    ELSE FALSE

\* delete_document, no document of the tenant has the id: HTTP 404.
DeleteDocumentNotFound(u, tenant, document_id) ==
    /\ ing[u].pc = "idle"
    /\ NoQueryRuns
    /\ ~DocumentFound(tenant, document_id)
    /\ ing' = [ing EXCEPT
                  ![u] = [Handler("delete_document", tenant, document_id, "", Binary)
                             EXCEPT !.pc = "return", !.error = "Document not found",
                                    !.responses = <<404>>]]
    /\ UNCHANGED <<qvars, index, bvars, vsOut, documents, nextDoc, produced, inv, fx, pinecone>>

\* delete_document, the select finds the document.
DeleteDocument(u, tenant, document_id) ==
    /\ ing[u].pc = "idle"
    /\ NoQueryRuns
    /\ DocumentFound(tenant, document_id)
    /\ ing' = [ing EXCEPT
                  ![u] = [Handler("delete_document", tenant, document_id,
                                  documents[document_id].filename, Binary)
                             EXCEPT !.pc = "delete_vectors"]]
    /\ UNCHANGED <<qvars, index, bvars, vsOut, documents, nextDoc, produced, inv, fx, pinecone>>

\* chunk_ids = [f"{document_id}_chunk_{i}" for i in range(document.chunks_count)]
DeleteChunkIds(document_id, chunks_count) ==
    { ChunkId(document_id, i) : i \in 0..(chunks_count - 1) }

\* await vector_store.delete_documents(tenant.slug, chunk_ids)
DeleteDocumentVectors(u) ==
    /\ ing[u].pc = "delete_vectors"
    /\ LET h == ing[u]
           chunk_ids == DeleteChunkIds(h.document_id,
                                       documents[h.document_id].chunks_count)
       IN  index' = [k \in { kk \in DOMAIN index :
                               ~(kk[1] = GetNamespace(h.tenant.slug)
                                   /\ kk[2] \in chunk_ids) } |-> index[k]]
    /\ ing' = [ing EXCEPT ![u].pc = "delete_record"]
    /\ UNCHANGED <<qvars, bvars, vsOut, documents, nextDoc, produced, inv, fx, pinecone>>

\* delete_documents raises: the handler prints a warning and goes on.
DeleteDocumentVectorsRaises(u) ==
    /\ ing[u].pc = "delete_vectors"
    /\ ing' = [ing EXCEPT ![u].pc = "delete_record", ![u].error = "index_delete"]
    /\ UNCHANGED <<qvars, index, bvars, vsOut, documents, nextDoc, produced, inv, fx, pinecone>>

\* await db.delete(document); await db.commit(); the response is 204.
DeleteDocumentRecord(u) ==
    /\ ing[u].pc = "delete_record"
    /\ documents' = Without(documents, ing[u].document_id)
    /\ produced' = [produced EXCEPT ![ing[u].document_id].deleted = TRUE]
    /\ ing' = [ing EXCEPT ![u].pc = "return", ![u].responses = Append(@, 204)]
    /\ UNCHANGED <<qvars, index, bvars, vsOut, nextDoc, inv, fx, pinecone>>

\* The response leaves the handler.
HandlerReturn(u) ==
    /\ ing[u].pc = "return"
    /\ ing' = [ing EXCEPT ![u] = IdleUpload]
    /\ UNCHANGED <<qvars, index, bvars, vsOut, documents, nextDoc, produced, inv, fx, pinecone>>

\* One client of the documents router that awaits each response before
\* its next call.
IngestNext ==
    \/ \E u \in Uploads, tenant \in Tenants, content \in PostedTexts :
           CreateDocumentFromText(u, tenant, content)
    \/ \E u \in Uploads, tenant \in Tenants, file \in UploadFiles :
           UploadDocumentFileRejected(u, tenant, file)
    \/ \E u \in Uploads, tenant \in Tenants, file \in UploadFiles :
           UploadDocumentFile(u, tenant, file)
    \/ \E u \in Uploads : IngestProcess(u)
    \/ \E u \in Uploads : IngestProcessRaises(u)
    \/ \E u \in Uploads : IngestUpsert(u)
    \/ \E u \in Uploads : IngestUpsertEmbedRaises(u)
    \/ \E u \in Uploads, b \in 0..MaxDocs : IngestUpsertBatchRaises(u, b)
    \/ \E u \in Uploads : IngestComplete(u)
    \/ \E u \in Uploads : IngestExcept(u)
    \/ \E u \in Uploads, tenant \in Tenants, n \in 1..Len(DocumentUuids) :
           DeleteDocumentNotFound(u, tenant, DocumentUuids[n])
    \/ \E u \in Uploads, tenant \in Tenants, n \in 1..Len(DocumentUuids) :
           DeleteDocument(u, tenant, DocumentUuids[n])
    \/ \E u \in Uploads : DeleteDocumentVectors(u)
    \/ \E u \in Uploads : DeleteDocumentVectorsRaises(u)
    \/ \E u \in Uploads : DeleteDocumentRecord(u)
    \/ \E u \in Uploads : HandlerReturn(u)

SpecIngest == VectorInit /\ [][IngestNext]_vars

IngestOps == {"create_document_from_text", "upload_document_file"}

\* A handler that has created a document record.
HasRecord(u) ==
    IF ing[u].pc = "idle" THEN FALSE
    ELSE ing[u].op \in IngestOps /\ ing[u].document_id \in DOMAIN documents

\* Every chunk of the handler is in the index under its tenant's namespace.
AllChunksUpserted(u) ==
    \A i \in 1..Len(ing[u].chunks) :
        <<GetNamespace(ing[u].tenant.slug), ing[u].chunks[i].id>> \in DOMAIN index

\* C11: when a call of create_document_from_text or upload_document_file
\* that created a record returns, the record is "completed" or "failed",
\* never "processing"; it is "completed" only once every chunk is upserted;
\* an error of chunking, embedding or upsert leaves it "failed" with the
\* error message recorded, and the call gives one response, a failure.
C11_IngestionEndsCompletedOrFailed ==
    \A u \in Uploads :
        HasRecord(u) =>
            LET h == ing[u]
                document == documents[h.document_id]
            IN  /\ document.status = "completed" =>
                       /\ AllChunksUpserted(u)
                       /\ document.chunks_count = Len(h.chunks)
                       /\ h.error = ""
                /\ h.pc = "return" =>
                       /\ document.status \in {"completed", "failed"}
                       /\ Len(h.responses) = 1
                       /\ h.error = "" =>
                              (document.status = "completed" /\ h.responses = <<201>>)
                       /\ h.error # "" =>
                              /\ document.status = "failed"
                              /\ document.error_message = h.error
                              /\ h.responses = <<500>>

\* C11 witness: an upload whose embedding failed is about to return.
C11_Witness ==
    \E u \in Uploads :
        /\ HasRecord(u)
        /\ ing[u].pc = "return"
        /\ ing[u].error = "embed"
        /\ Len(ing[u].chunks) >= 2

SupportedTypes == {"pdf", "docx", "txt", "md", "markdown", "json"}

\* C12 (the claim as stated): an upload of a file whose type is none of
\* pdf, docx, txt, md, markdown, json ends in an error and leaves a record
\* with status "failed" and the error message; an upload of a JSON file is
\* accepted and ingested.
C12_UnsupportedFailsJsonIngested ==
    \A u \in Uploads :
        IF ing[u].pc # "return" THEN TRUE
        ELSE ing[u].op = "upload_document_file" =>
            LET h == ing[u]
                recorded == h.document_id \in DOMAIN documents
            IN  /\ FileExtension(h.filename) \notin SupportedTypes =>
                       /\ h.responses \in {<<400>>, <<500>>}
                       /\ recorded
                       /\ recorded => documents[h.document_id].status = "failed"
                       /\ recorded => documents[h.document_id].error_message # ""
                /\ (FileExtension(h.filename) = "json" /\ h.content.kind = "json") =>
                       /\ h.responses = <<201>>
                       /\ recorded
                       /\ recorded => documents[h.document_id].status = "completed"

\* C13 (the claim as stated): once delete_document has completed for a
\* document that was ingested successfully, none of the vectors upserted
\* for it is left in the namespace of its tenant.
C13_DeleteRemovesVectors ==
    \A d \in DOMAIN produced :
        (produced[d].completed /\ produced[d].deleted) =>
            \A id \in produced[d].ids :
                <<GetNamespace(produced[d].tenant_slug), id>> \notin DOMAIN index

\* The client calls RAGService.query while no handler of the router runs.
ClientStartQuery(r) ==
    /\ NoHandlerRuns
    /\ StartQuery(SeqClient, r)

\* The tenant whose knowledge base the client changes and queries.
KnowledgeTenant == TenantOf("T1")

KnowledgeRequest == MkRequest(KnowledgeTenant, NoAssistant, PyStr("Hello"))

\* One client that adds text documents to a knowledge base, deletes them
\* and queries, awaiting each response before its next call; no call fails.
KnowledgeNext ==
    \/ \E u \in Uploads, content \in PostedTexts :
           CreateDocumentFromText(u, KnowledgeTenant, content)
    \/ \E u \in Uploads : IngestProcess(u)
    \/ \E u \in Uploads : IngestUpsert(u)
    \/ \E u \in Uploads : IngestComplete(u)
    \/ \E u \in Uploads, n \in 1..Len(DocumentUuids) :
           DeleteDocument(u, KnowledgeTenant, DocumentUuids[n])
    \/ \E u \in Uploads : DeleteDocumentVectors(u)
    \/ \E u \in Uploads : DeleteDocumentRecord(u)
    \/ \E u \in Uploads : HandlerReturn(u)
    \/ ClientStartQuery(KnowledgeRequest)
    \/ GetCachedResult(SeqClient)
    \/ EmbedQuery(SeqClient)
    \/ SearchIndex(SeqClient)
    \/ Complete(SeqClient)
    \/ CacheResult(SeqClient)
    \/ Return(SeqClient)

SpecKnowledge == VectorInit /\ [][KnowledgeNext]_vars

\* C16 (the claim as stated): after a document of tenant T was ingested or
\* deleted, a query of T that is answered from the cache carries the chunks
\* of a search of the knowledge base as it is now, not those of an entry
\* written before the change.
C16_HitReflectsKnowledgeBase ==
    (IsHit(SeqClient) /\ NoHandlerRuns) =>
        loc[SeqClient].result.chunks_ids
            \in QueryMatches(index, GetNamespace(req[SeqClient].tenant.slug),
                             req[SeqClient].top_k, PyNone)

\* ------------------------------------- request parameters outside the key

\* A knowledge base of two chunks of tenant acme.
TwoChunkIndex ==
    (<<GetNamespace("acme"), "d1_chunk_0">> :>
        [document_type |-> "rubric", content |-> "alpha", tenant_slug |-> "acme"])
    @@ (<<GetNamespace("acme"), "d1_chunk_1">> :>
        [document_type |-> "example", content |-> "beta", tenant_slug |-> "acme"])

ParamsRequest == MkRequest(TenantOf("T1"), NoAssistant, PyStr("Hello"))

\* Requests of one tenant, assistant and message that differ in the
\* arguments instructions, search_query and top_k.
ParamsRequests ==
    { ParamsRequest,
      [ParamsRequest EXCEPT !.instructions = PyStr("Responde en una frase")],
      [ParamsRequest EXCEPT !.search_query = PyStr("rubrica")],
      [ParamsRequest EXCEPT !.top_k = 1] }

ParamsInit ==
    /\ Quiescent
    /\ index = TwoChunkIndex
    /\ pinecone = LoadedIndex

\* Concurrent callers of RAGService.query whose remote calls all succeed.
ParamsNext ==
    \/ \E q \in Queries, r \in ParamsRequests : StartQuery(q, r)
    \/ \E q \in Queries : GetCachedResult(q)
    \/ \E q \in Queries : EmbedQuery(q)
    \/ \E q \in Queries : SearchIndex(q)
    \/ \E q \in Queries : Complete(q)
    \/ \E q \in Queries : CacheResult(q)
    \/ \E q \in Queries : Return(q)
    \/ \E key \in DOMAIN cache : Expire(key)

SpecParams == ParamsInit /\ [][ParamsNext]_vars

\* C21 (the claim as stated): a value written under a key that holds an
\* earlier written value agrees with it in every member other than query_id
\* and processing_time_ms.
C21_RewritesAreEquivalent ==
    [][\A key \in DOMAIN written :
          IF key \in DOMAIN written'
          THEN SamePayload(written[key], written'[key])
          ELSE TRUE]_vars

\* C29 (the claim as stated): a call answered from the cache gets a result
\* that was computed by a call with the same instructions, search_query
\* and top_k.
C29_HitMatchesParameters ==
    \A q, o \in Queries :
        (/\ q # o
         /\ IsHit(q)
         /\ IsMiss(o)
         /\ loc[q].hit_from.query_id = loc[o].query_id) =>
            /\ req[q].instructions = req[o].instructions
            /\ req[q].search_query = req[o].search_query
            /\ req[q].top_k = req[o].top_k

\* ------------------------------------------- documents of several batches

\* A text without separators that is cut into one chunk more than a batch
\* of upsert_documents holds.
LongDocument ==
    Repeat("0123456789",
           (UpsertBatchSize * (ChunkSize - ChunkOverlap) + ChunkOverlap) \div 10 + 1)

BulkTexts == { LongDocument, "Hola mundo" }

\* One client that posts texts to create_document_from_text, one of them
\* longer than a batch, awaiting each response before its next call.
BulkNext ==
    \/ \E u \in Uploads, tenant \in Tenants, content \in BulkTexts :
           CreateDocumentFromText(u, tenant, content)
    \/ \E u \in Uploads : IngestProcess(u)
    \/ \E u \in Uploads : IngestUpsert(u)
    \/ \E u \in Uploads : IngestUpsertEmbedRaises(u)
    \/ \E u \in Uploads, b \in 0..MaxDocs : IngestUpsertBatchRaises(u, b)
    \/ \E u \in Uploads : IngestComplete(u)
    \/ \E u \in Uploads : IngestExcept(u)
    \/ \E u \in Uploads : HandlerReturn(u)

SpecBulk == VectorInit /\ [][BulkNext]_vars

\* C24: when the k-th index.upsert of an ingestion raises, the handler gets
\* an exception and no count, exactly the chunks of the batches 1..k-1 are
\* in the tenant's namespace (none of batch k or later), and the handler
\* returns 500 with the document recorded as "failed".
C24_PartialBatchFailure ==
    \A u \in Uploads :
        IF ing[u].pc \notin {"except", "return"} THEN TRUE
        ELSE (ing[u].op \in IngestOps /\ ing[u].error = "index_upsert") =>
            LET h == ing[u]
                k == h.batches_sent
                namespace == GetNamespace(h.tenant.slug)
            IN  /\ k \in 1..UpsertBatches(h.chunks)
                /\ \A i \in 1..Len(h.chunks) :
                       (<<namespace, h.chunks[i].id>> \in DOMAIN index)
                           <=> (i <= (k - 1) * UpsertBatchSize)
                /\ documents[h.document_id].chunks_count = 0
                /\ documents[h.document_id].status # "completed"
                /\ h.pc = "return" =>
                       /\ documents[h.document_id].status = "failed"
                       /\ documents[h.document_id].error_message = h.error
                       /\ h.responses = <<500>>

\* C24 witness: the second batch of an ingestion failed and the handler is
\* about to return, the first batch being stored.
C24_Witness ==
    \E u \in Uploads :
        /\ ing[u].pc = "return"
        /\ ing[u].error = "index_upsert"
        /\ ing[u].batches_sent = 2
        /\ Len(ing[u].chunks) > UpsertBatchSize
        /\ <<GetNamespace(ing[u].tenant.slug), ing[u].chunks[UpsertBatchSize].id>>
               \in DOMAIN index
        /\ documents[ing[u].document_id].status = "failed"

\* ------------------------------------------------- concurrent ingestions

\* The tenant whose documents are ingested at the same time.
ConcurrentTenant == TenantOf("T1")

ConcurrentTexts == { "Hola mundo", "Otro texto" }

ConcurrentFiles ==
    { [filename |-> "Guia.PDF", content |-> PdfFile(<<"uno", "", "dos">>)],
      [filename |-> "notas.txt", content |-> Utf8("Hola")] }

\* Two handlers of the router that ingest documents of one tenant at the
\* same time; no call fails.
ConcurrentNext ==
    \/ \E u \in Handlers, content \in ConcurrentTexts :
           CreateDocumentFromText(u, ConcurrentTenant, content)
    \/ \E u \in Handlers, file \in ConcurrentFiles :
           UploadDocumentFile(u, ConcurrentTenant, file)
    \/ \E u \in Handlers : IngestProcess(u)
    \/ \E u \in Handlers : IngestUpsert(u)
    \/ \E u \in Handlers : IngestComplete(u)
    \/ \E u \in Handlers : HandlerReturn(u)

SpecConcurrent == VectorInit /\ [][ConcurrentNext]_vars

\* The handler has ingested its document and is about to answer 201.
Ingested(u) ==
    IF ing[u].pc # "return" THEN FALSE
    ELSE ing[u].op \in IngestOps /\ ing[u].responses = <<201>>

\* The vector of every chunk of the handler is in the namespace of its
\* tenant with the content of that chunk.
HoldsEveryChunk(u) ==
    \A i \in 1..Len(ing[u].chunks) :
        LET key == <<GetNamespace(ing[u].tenant.slug), ing[u].chunks[i].id>>
        IN  IF key \in DOMAIN index
            THEN index[key].content
                     = PySlice(ing[u].chunks[i].content, 0, StoredContentChars)
            ELSE FALSE

\* C25: the chunk ids of two documents are disjoint at every point of
\* their ingestions, and when two handlers have both ingested their
\* documents of one tenant the namespace holds every chunk of both, each
\* with its own content.
C25_ConcurrentIngestionsKeepApart ==
    /\ \A d, e \in DOMAIN produced :
           d # e => produced[d].ids \cap produced[e].ids = {}
    /\ \A d \in DOMAIN produced :
           produced[d].completed =>
               \A id \in produced[d].ids :
                   <<GetNamespace(produced[d].tenant_slug), id>> \in DOMAIN index
    /\ \A u, v \in Handlers :
           (u # v /\ Ingested(u) /\ Ingested(v)) =>
               /\ HoldsEveryChunk(u)
               /\ HoldsEveryChunk(v)
               /\ \A i \in 1..Len(ing[u].chunks), j \in 1..Len(ing[v].chunks) :
                      ing[u].chunks[i].id # ing[v].chunks[j].id

\* C25 witness: two handlers whose chunk, embed and upsert steps were
\* interleaved have both ingested a document with chunks.
C25_Witness ==
    \E u, v \in Handlers :
        /\ u # v
        /\ Ingested(u)
        /\ Ingested(v)
        /\ ing[u].chunks # <<>>
        /\ ing[v].chunks # <<>>
        /\ ing[u].content # ing[v].content
        /\ HoldsEveryChunk(u)
        /\ HoldsEveryChunk(v)

\* ------------------------------------------- VectorStoreService.index

\* A use of a VectorStoreService instance starts only while the instance
\* has made fewer calls to Pinecone than this.
MaxUses == 6

\* A call to Pinecone: for list_indexes the names it returned, for
\* create_index the index asked for and whether the call succeeded.
PineconeCall(call, names, created, ok) ==
    [call |-> call, names |-> names, created |-> created, ok |-> ok]

ListIndexes(p) == PineconeCall("list_indexes", { i.name : i \in p.indexes }, {}, TRUE)
CreateIndex(ok) == PineconeCall("create_index", {}, {ConfiguredIndex}, ok)
DataCall(call) == PineconeCall(call, {}, {}, TRUE)

DataCalls == {"upsert", "query", "delete"}

\* The index property that creates the index without asking whether it exists.
IndexUnchecked(p) ==
    IF p._index # PyNone THEN p
    ELSE [indexes |-> { i \in p.indexes : i.name # IndexName } \cup {ConfiguredIndex},
          _index |-> PyStr(IndexName),
          log |-> p.log \o <<ListIndexes(p), CreateIndex(TRUE)>>]

\* VectorStoreService.index, the property, when no call of it fails.
Index(p) ==
    IF p._index # PyNone THEN p
    ELSE IF IndexName \notin { i.name : i \in p.indexes }
    THEN [indexes |-> p.indexes \cup {ConfiguredIndex},
          _index |-> PyStr(IndexName),
          log |-> p.log \o <<ListIndexes(p), CreateIndex(TRUE)>>]
    ELSE [p EXCEPT !._index = PyStr(IndexName), !.log = Append(@, ListIndexes(p))]

\* self.index.<call>(...)
IndexCall(p, call) == [Index(p) EXCEPT !.log = Append(@, DataCall(call))]

\* Another index of the account, and the named index as someone else made it.
OtherIndex == [name |-> "otro", dimension |-> 8, metric |-> "cosine"]
ForeignIndex == [name |-> IndexName, dimension |-> 8, metric |-> "euclidean"]

\* A new VectorStoreService instance: self._index is None.
LazyInit ==
    /\ Quiescent
    /\ index = <<>>
    /\ \E indexes \in {{}, {OtherIndex}, {ForeignIndex}, {OtherIndex, ConfiguredIndex}} :
           pinecone = [indexes |-> indexes, _index |-> PyNone, log |-> <<>>]

MayUse == Len(pinecone.log) < MaxUses

lvars == <<documents, ing, nextDoc, produced, inv, fx>>

\* upsert_documents of at most one batch; an empty list sends nothing.
LazyUpsertDocuments(tenant_slug, docs) ==
    /\ MayUse
    /\ index' = ApplyUpsert(index, GetNamespace(tenant_slug), tenant_slug, docs, Len(docs))
    /\ vsOut' = Outcome("upsert", tenant_slug, "", Len(docs), <<>>)
    /\ pinecone' = IF docs = <<>> THEN pinecone ELSE IndexCall(pinecone, "upsert")
    /\ UNCHANGED <<qvars, bvars, lvars>>

\* search
LazySearch(tenant_slug, top_k) ==
    /\ MayUse
    /\ \E ranking \in QueryMatches(index, GetNamespace(tenant_slug), top_k, PyNone) :
           vsOut' = Outcome("search", tenant_slug, "", top_k,
                            SearchResults(index, GetNamespace(tenant_slug), ranking))
    /\ pinecone' = IndexCall(pinecone, "query")
    /\ UNCHANGED <<index, qvars, bvars, lvars>>

\* delete_documents
LazyDeleteDocuments(tenant_slug, document_ids) ==
    /\ MayUse
    /\ index' = [k \in { kk \in DOMAIN index :
                           ~(kk[1] = GetNamespace(tenant_slug) /\ kk[2] \in document_ids) }
                    |-> index[k]]
    /\ vsOut' = Outcome("delete", tenant_slug, "", Cardinality(document_ids), <<>>)
    /\ pinecone' = IndexCall(pinecone, "delete")
    /\ UNCHANGED <<qvars, bvars, lvars>>

\* A use of the index in which pc.create_index raises: the exception leaves
\* the property, self._index stays None and the call is not sent.
LazyCreateIndexRaises(tenant_slug, op) ==
    /\ MayUse
    /\ pinecone._index = PyNone
    /\ IndexName \notin { i.name : i \in pinecone.indexes }
    /\ pinecone' = [pinecone EXCEPT
                       !.log = @ \o <<ListIndexes(pinecone), CreateIndex(FALSE)>>]
    /\ vsOut' = Outcome(op, tenant_slug, "create_index", 0, <<>>)
    /\ UNCHANGED <<index, qvars, bvars, lvars>>

\* The document lists and id lists the instance is used with.
LazyDocLists == { docs \in DocLists : Len(docs) <= 1 }
LazyIdLists == { {d.id} : d \in DocPool }

LazyNext ==
    \/ \E t \in Slugs, docs \in LazyDocLists : LazyUpsertDocuments(t, docs)
    \/ \E t \in Slugs, k \in TopKs : LazySearch(t, k)
    \/ \E t \in Slugs, ids \in LazyIdLists : LazyDeleteDocuments(t, ids)
    \/ \E t \in Slugs, op \in {"upsert", "search", "delete"} : LazyCreateIndexRaises(t, op)

\* The uses of one VectorStoreService instance, one after another.
SpecLazy == LazyInit /\ [][LazyNext]_vars

\* The places of the log at which the index was created.
Creations == { i \in 1..Len(pinecone.log) :
                 pinecone.log[i].call = "create_index" /\ pinecone.log[i].ok }

\* C28: over the uses of one instance the index is created at most once;
\* every create_index call follows a list_indexes that did not name the
\* index and asks for the configured dimension and the cosine metric; the
\* creation comes before every upsert, query or delete; no such call is
\* sent while the index does not exist; and when list_indexes names the
\* index no create_index follows.
C28_IndexIsCreatedOnceBeforeUse ==
    LET log == pinecone.log
    IN  /\ Cardinality(Creations) <= 1
        /\ \A i \in 1..Len(log) :
               /\ log[i].call = "create_index" =>
                      /\ i > 1
                      /\ log[i - 1].call = "list_indexes"
                      /\ IndexName \notin log[i - 1].names
                      /\ log[i].created = {ConfiguredIndex}
               /\ (log[i].call = "list_indexes" /\ IndexName \in log[i].names
                       /\ i < Len(log)) =>
                      log[i + 1].call # "create_index"
               /\ log[i].call \in DataCalls =>
                      /\ \A c \in Creations : c < i
                      /\ \E j \in 1..(i - 1) :
                             /\ log[j].call = "list_indexes"
                             /\ (IndexName \in log[j].names \/ j + 1 \in Creations)
        /\ (\E i \in 1..Len(log) : log[i].call \in DataCalls) =>
               /\ pinecone._index = PyStr(IndexName)
               /\ IndexName \in { x.name : x \in pinecone.indexes }
        /\ Creations # {} => ConfiguredIndex \in pinecone.indexes

\* C28 witness: the first use failed in create_index, the second created
\* the index, and a later use was sent without another creation.
C28_Witness ==
    /\ Cardinality(Creations) = 1
    /\ \E i \in 1..Len(pinecone.log) :
           pinecone.log[i].call = "create_index" /\ ~pinecone.log[i].ok
    /\ Cardinality({ i \in 1..Len(pinecone.log) :
                       pinecone.log[i].call \in DataCalls }) >= 2

====
